---- MODULE Spec2Model ----
(***************************************************************************)
(* A model of the GW-BASIC interpreter session of rust-gwbasic             *)
(* (src/rust-gwbasic/src/interpreter.rs): the session state, the loader    *)
(* `execute`, the statement dispatcher `execute_node` and the `run` loop.  *)
(*                                                                         *)
(* Doubles are modelled by the integers they hold: every FOR bound, step   *)
(* and DATA value of the inputs below is integral, so the arithmetic of    *)
(* the model is exact.                                                     *)
(***************************************************************************)
EXTENDS Integers, Sequences, FiniteSets

\* Number of execute/run calls explored in one session.
MaxCalls == 3

(***************************************************************************)
(* value.rs : Value.  A number is held as n + h/2 with n its floor and h   *)
(* 0 or 1, so the doubles of the model are the integers and the halves;    *)
(* an Integer has h = 0.                                                   *)
(***************************************************************************)
IntV(i) == [t |-> "Integer", n |-> i, h |-> 0, s |-> ""]
DblV(d) == [t |-> "Double", n |-> d, h |-> 0, s |-> ""]
StrV(x) == [t |-> "String", n |-> 0, h |-> 0, s |-> x]
NilV == [t |-> "Nil", n |-> 0, h |-> 0, s |-> ""]
\* Value::Double(k / 2)
HalfV(k) == [t |-> "Double", n |-> k \div 2, h |-> k % 2, s |-> ""]
\* Value::Single(k / 2)
SingleV(k) == [t |-> "Single", n |-> k \div 2, h |-> k % 2, s |-> ""]

\* i32::MIN and i32::MAX
MinI32 == -2147483647 - 1
MaxI32 == 2147483647

(***************************************************************************)
(* error.rs : Result<T> / Error.  A message is the sequence of the pieces  *)
(* that format! joins.                                                     *)
(***************************************************************************)
Ok == [kind |-> "Ok", msg |-> <<>>]
Err(k, m) == [kind |-> k, msg |-> m]
ProgramEnd == Err("ProgramEnd", <<>>)
NoCall == [kind |-> "NoCall", msg |-> <<>>]
\* a Rust panic: the call does not return a Result, the thread unwinds
Panic(m) == Err("Panic", <<m>>)
\* a result that is not a whole number of halves: outside the model
Inexact == Err("Inexact", <<>>)

\* str::parse::<f64> on the string values that occur in the inputs:
\* decimal text parses to its number, anything else is a parse failure.
NumericText == [x \in {"0", "1", "2", "3"} |->
                  CASE x = "0" -> 0 [] x = "1" -> 1 [] x = "2" -> 2 [] x = "3" -> 3]

\* Value::as_double; the result is [ok, n, h, err].
as_double(v) ==
  CASE v.t = "Integer" -> [ok |-> TRUE, n |-> v.n, h |-> 0, err |-> Ok]
    [] v.t = "Single"  -> [ok |-> TRUE, n |-> v.n, h |-> v.h, err |-> Ok]
    [] v.t = "Double"  -> [ok |-> TRUE, n |-> v.n, h |-> v.h, err |-> Ok]
    [] v.t = "String"  ->
         IF v.s \in DOMAIN NumericText
           THEN [ok |-> TRUE, n |-> NumericText[v.s], h |-> 0, err |-> Ok]
           ELSE [ok |-> FALSE, n |-> 0, h |-> 0,
                 err |-> Err("TypeError", <<"Cannot convert '", v.s, "' to double">>)]
    [] v.t = "Nil"     -> [ok |-> TRUE, n |-> 0, h |-> 0, err |-> Ok]

\* `f as i32`: the fraction is dropped (truncation toward zero); every number
\* of the model lies within the range of i32, so the cast never saturates
float_to_i32(n, h) == IF n < 0 /\ h = 1 THEN n + 1 ELSE n

\* Value::as_integer; the result is [ok, n, err].
as_integer(v) ==
  CASE v.t = "Integer" -> [ok |-> TRUE, n |-> v.n, err |-> Ok]
    [] v.t = "Single"  -> [ok |-> TRUE, n |-> float_to_i32(v.n, v.h), err |-> Ok]
    [] v.t = "Double"  -> [ok |-> TRUE, n |-> float_to_i32(v.n, v.h), err |-> Ok]
    [] v.t = "String"  ->
         IF v.s \in DOMAIN NumericText
           THEN [ok |-> TRUE, n |-> NumericText[v.s], err |-> Ok]
           ELSE [ok |-> FALSE, n |-> 0,
                 err |-> Err("TypeError", <<"Cannot convert '", v.s, "' to integer">>)]
    [] v.t = "Nil"     -> [ok |-> TRUE, n |-> 0, err |-> Ok]

\* Nil is counted among the numbers
is_numeric_with_nil(v) == v.t \in {"Integer", "Single", "Double", "Nil"}

\* Value::is_numeric
is_numeric(v) == v.t \in {"Integer", "Single", "Double"}

\* Value::is_string
is_string(v) == v.t = "String"

\* i32::to_string / f64::to_string of an integral number.
Digit(d) == CASE d = 0 -> "0" [] d = 1 -> "1" [] d = 2 -> "2" [] d = 3 -> "3"
              [] d = 4 -> "4" [] d = 5 -> "5" [] d = 6 -> "6" [] d = 7 -> "7"
              [] d = 8 -> "8" [] d = 9 -> "9"

RECURSIVE NatToString(_)
NatToString(k) == IF k < 10 THEN Digit(k) ELSE NatToString(k \div 10) \o Digit(k % 10)

\* i32::to_string / f64::to_string of n + h/2
NumberToString(n, h) ==
  LET whole == float_to_i32(n, h)
      sign == IF n < 0 THEN "-" ELSE ""
      digits == IF whole = MinI32 THEN "2147483648"
                ELSE IF whole < 0 THEN NatToString(0 - whole)
                ELSE NatToString(whole)
  IN sign \o digits \o (IF h = 1 THEN ".5" ELSE "")

\* impl fmt::Display for Value
Display(v) ==
  CASE v.t \in {"Integer", "Single", "Double"} -> NumberToString(v.n, v.h)
    [] v.t = "String" -> v.s
    [] v.t = "Nil" -> ""

\* Value::as_string giving the text of a String only
as_string_of_strings(v) == IF v.t = "String" THEN v.s ELSE ""

\* Value::as_string
as_string(v) == Display(v)

(***************************************************************************)
(* parser.rs : AstNode                                                     *)
(***************************************************************************)
Literal(v) == [op |-> "Literal", val |-> v]
Variable(name) == [op |-> "Variable", name |-> name]
BinaryOp(bop, left, right) ==
  [op |-> "BinaryOp", bop |-> bop, left |-> left, right |-> right]
UnaryOp(uop, expr) == [op |-> "UnaryOp", uop |-> uop, expr |-> expr]

PrintNode(exprs) == [op |-> "Print", exprs |-> exprs]
Let(name, expr) == [op |-> "Let", name |-> name, expr |-> expr]
If(cond, then_stmts, has_else, else_stmts) ==
  [op |-> "If", cond |-> cond, then_stmts |-> then_stmts,
   has_else |-> has_else, else_stmts |-> else_stmts]
\* step is <<>> for None and <<e>> for Some(e)
For(var, start, end, step) ==
  [op |-> "For", name |-> var, start |-> start, end |-> end, step |-> step]
NextNode(var) == [op |-> "Next", name |-> var]
While(cond, statements) == [op |-> "While", cond |-> cond, body |-> statements]
Goto(line) == [op |-> "Goto", line |-> line]
Gosub(line) == [op |-> "Gosub", line |-> line]
Return == [op |-> "Return"]
End == [op |-> "End"]
Stop == [op |-> "Stop"]
Rem == [op |-> "Rem"]
Read(vars) == [op |-> "Read", vars |-> vars]
Data(values) == [op |-> "Data", exprs |-> values]
Restore == [op |-> "Restore"]
Dim(name, dimensions) == [op |-> "Dim", name |-> name, dims |-> dimensions]
Swap(var1, var2) == [op |-> "Swap", var1 |-> var1, var2 |-> var2]
Line(num, statements) == [op |-> "Line", line |-> num, body |-> statements]
Program(nodes) == [op |-> "Program", body |-> nodes]

(***************************************************************************)
(* interpreter.rs : the session.  A session value is the record            *)
(*   [variables, lines, current_line, call_stack, for_stack, data_items,   *)
(*    data_pointer, output, read_log]                                      *)
(* where variables and lines are functions on the set of their keys, an    *)
(* Option is <<>> (None) or <<x>> (Some(x)), output is the text written by *)
(* the call in progress, piece by piece, and read_log is the history of    *)
(* the values READ has bound since the last RESTORE.                       *)
(***************************************************************************)
EmptyMap == [k \in {} |-> 0]

\* HashMap::insert
Insert(map, key, val) ==
  [k \in (DOMAIN map) \cup {key} |-> IF k = key THEN val ELSE map[k]]

\* Interpreter::new
new ==
  [variables |-> EmptyMap, lines |-> EmptyMap, current_line |-> <<>>,
   call_stack |-> <<>>, for_stack |-> <<>>, data_items |-> <<>>,
   data_pointer |-> 0, output |-> <<>>, read_log |-> <<>>]

\* the outcome of a statement: the session it leaves and its Result
Done(s, r) == [s |-> s, res |-> r]

\* Vec::pop / the slice without its last element
Front(q) == SubSeq(q, 1, Len(q) - 1)

\* no Result<Value>: nothing has been evaluated
NoResult == [ok |-> FALSE, val |-> NilV, err |-> NoCall]

\* Ok(value) and Err(error) of a Result<Value>, as [ok, val, err]
Good(v) == [ok |-> TRUE, val |-> v, err |-> Ok]
Bad(e) == [ok |-> FALSE, val |-> NilV, err |-> e]

\* `let x = e;` before K: K of the value of e, which is computed once
With(e, K(_)) == CHOOSE y \in {K(x) : x \in {e}} : TRUE

(***************************************************************************)
(* f64 arithmetic on the numbers n + h/2.  A result that is not a whole    *)
(* number of halves has no representation and is reported as exact = FALSE.*)
(***************************************************************************)
Num2(n, h) == [n |-> n, h |-> h, exact |-> TRUE]
NoNum == [n |-> 0, h |-> 0, exact |-> FALSE]
NumV(x) == [t |-> "Double", n |-> x.n, h |-> x.h, s |-> ""]

f64_neg(a) == IF a.h = 0 THEN Num2(0 - a.n, 0) ELSE Num2((0 - a.n) - 1, 1)
f64_add(a, b) == Num2(a.n + b.n + ((a.h + b.h) \div 2), (a.h + b.h) % 2)
f64_sub(a, b) == f64_add(a, f64_neg(b))
f64_mul(a, b) ==
  IF a.h = 1 /\ b.h = 1 THEN NoNum
  ELSE LET k == a.n * b.h + b.n * a.h
       IN Num2(a.n * b.n + (k \div 2), k % 2)
f64_eq(a, b) == a.n = b.n /\ a.h = b.h
f64_lt(a, b) == a.n < b.n \/ (a.n = b.n /\ a.h < b.h)
f64_is_zero(a) == a.n = 0 /\ a.h = 0
\* a / b for b # 0
f64_div(a, b) ==
  LET a2 == 2 * a.n + a.h
      b2 == 2 * b.n + b.h
      num == IF b2 < 0 THEN 0 - (2 * a2) ELSE 2 * a2
      den == IF b2 < 0 THEN 0 - b2 ELSE b2
      k == num \div den
  IN IF k * den = num THEN Num2(k \div 2, k % 2) ELSE NoNum
\* f64::powf, for a whole base and a whole exponent that is not negative
f64_powf(a, b) ==
  IF a.h = 0 /\ b.h = 0 /\ b.n >= 0
    THEN Num2(IF b.n = 0 THEN 1 ELSE a.n ^ b.n, 0)
    ELSE NoNum

\* Ok(Value::Double(x))
DoubleResult(x) == IF x.exact THEN Good(NumV(x)) ELSE Bad(Inexact)

(***************************************************************************)
(* i32 arithmetic.  `/` truncates toward zero and `%` takes the sign of    *)
(* the dividend; both panic on i32::MIN with -1, in every build profile.   *)
(***************************************************************************)
\* l / r for r > 0
i32_div_pos(l, r) ==
  LET fl == l \div r IN IF l < 0 /\ l % r # 0 THEN fl + 1 ELSE fl

\* l / r for r # 0 and not (l = i32::MIN and r = -1)
i32_quot(l, r) ==
  IF r > 0 THEN i32_div_pos(l, r)
  ELSE IF r = MinI32 THEN (IF l = MinI32 THEN 1 ELSE 0)
  ELSE 0 - i32_div_pos(l, 0 - r)

\* l / r on i32, r # 0
i32_div(l, r) ==
  IF l = MinI32 /\ r = -1 THEN Bad(Panic("attempt to divide with overflow"))
  ELSE Good(IntV(i32_quot(l, r)))

\* l % r on i32, r # 0
i32_rem(l, r) ==
  IF l = MinI32 /\ r = -1
    THEN Bad(Panic("attempt to calculate the remainder with overflow"))
    ELSE Good(IntV(l - i32_quot(l, r) * r))

\* the bit operations of i32 in two's complement: bit 0 is a % 2, the other
\* bits are those of the floor of a / 2, and 0 and -1 are all zeros and all ones
i32_not(a) == (0 - 1) - a

RECURSIVE i32_and(_, _)
i32_and(a, b) ==
  IF a = 0 \/ b = 0 THEN 0
  ELSE IF a = -1 THEN b
  ELSE IF b = -1 THEN a
  ELSE 2 * i32_and(a \div 2, b \div 2) + ((a % 2) * (b % 2))

RECURSIVE i32_or(_, _)
i32_or(a, b) ==
  IF a = -1 \/ b = -1 THEN -1
  ELSE IF a = 0 THEN b
  ELSE IF b = 0 THEN a
  ELSE 2 * i32_or(a \div 2, b \div 2) + (IF (a % 2) = 1 \/ (b % 2) = 1 THEN 1 ELSE 0)

RECURSIVE i32_xor(_, _)
i32_xor(a, b) ==
  IF a = 0 THEN b
  ELSE IF b = 0 THEN a
  ELSE IF a = -1 THEN i32_not(b)
  ELSE IF b = -1 THEN i32_not(a)
  ELSE 2 * i32_xor(a \div 2, b \div 2) + (((a % 2) + (b % 2)) % 2)

\* true is 1
truth_value_positive(b) == IF b THEN 1 ELSE 0

\* `if relation { -1 } else { 0 }`
truth_value(b) == IF b THEN -1 ELSE 0

\* the relation a relational operator tests
relation(op, a, b) ==
  CASE op = "Equal" -> f64_eq(a, b)
    [] op = "NotEqual" -> ~f64_eq(a, b)
    [] op = "LessThan" -> f64_lt(a, b)
    [] op = "GreaterThan" -> f64_lt(b, a)
    [] op = "LessEqual" -> f64_lt(a, b) \/ f64_eq(a, b)
    [] op = "GreaterEqual" -> f64_lt(b, a) \/ f64_eq(a, b)

\* the f64 operation of an arithmetic operator
arithmetic(op, a, b) ==
  CASE op = "Add" -> f64_add(a, b)
    [] op = "Subtract" -> f64_sub(a, b)
    [] op = "Multiply" -> f64_mul(a, b)
    [] op = "Power" -> f64_powf(a, b)

\* the i32 operation of a bitwise operator
bitwise(op, l, r) ==
  CASE op = "And" -> i32_and(l, r)
    [] op = "Or" -> i32_or(l, r)
    [] op = "Xor" -> i32_xor(l, r)
    [] op = "Eqv" -> i32_not(i32_xor(l, r))
    [] op = "Imp" -> i32_or(i32_not(l), r)

RelationalOps == {"Equal", "NotEqual", "LessThan", "GreaterThan", "LessEqual",
                  "GreaterEqual"}
BitwiseOps == {"And", "Or", "Xor", "Eqv", "Imp"}
IntegerOps == {"IntDivide", "Mod"}
ArithmeticOps == {"Add", "Subtract", "Multiply", "Power"}
\* enum BinaryOperator
BinaryOperator == ArithmeticOps \cup {"Divide"} \cup IntegerOps \cup RelationalOps
                    \cup BitwiseOps
\* enum UnaryOperator
UnaryOperator == {"Negate", "Not"}

\* Interpreter::evaluate_binary_op; the result is [ok, val, err]
evaluate_binary_op(op, left, right) ==
  LET ld == as_double(left)
      rd == as_double(right)
      li == as_integer(left)
      ri == as_integer(right)
  IN CASE op = "Add" /\ (is_string(left) \/ is_string(right)) ->
            Good(StrV(as_string(left) \o as_string(right)))
       [] op = "Divide" ->
            IF ~rd.ok THEN Bad(rd.err)
            ELSE IF f64_is_zero(rd) THEN Bad(Err("DivisionByZero", <<>>))
            ELSE IF ~ld.ok THEN Bad(ld.err)
            ELSE DoubleResult(f64_div(ld, rd))
       [] op \in IntegerOps ->
            IF ~ri.ok THEN Bad(ri.err)
            ELSE IF ri.n = 0 THEN Bad(Err("DivisionByZero", <<>>))
            ELSE IF ~li.ok THEN Bad(li.err)
            ELSE IF op = "IntDivide" THEN i32_div(li.n, ri.n)
            ELSE i32_rem(li.n, ri.n)
       [] op \in RelationalOps ->
            IF ~ld.ok THEN Bad(ld.err)
            ELSE IF ~rd.ok THEN Bad(rd.err)
            ELSE Good(IntV(truth_value(relation(op, ld, rd))))
       [] op \in BitwiseOps ->
            IF ~li.ok THEN Bad(li.err)
            ELSE IF ~ri.ok THEN Bad(ri.err)
            ELSE Good(IntV(bitwise(op, li.n, ri.n)))
       [] OTHER ->
            IF ~ld.ok THEN Bad(ld.err)
            ELSE IF ~rd.ok THEN Bad(rd.err)
            ELSE DoubleResult(arithmetic(op, ld, rd))

\* Interpreter::evaluate_unary_op
evaluate_unary_op(op, val) ==
  IF op = "Negate"
    THEN LET d == as_double(val)
         IN IF ~d.ok THEN Bad(d.err) ELSE DoubleResult(f64_neg(d))
    ELSE LET i == as_integer(val)
         IN IF ~i.ok THEN Bad(i.err) ELSE Good(IntV(i32_not(i.n)))

\* a variable that was never assigned reads as zero
lookup_implicit_zero(s, name) ==
  IF name \in DOMAIN s.variables THEN Good(s.variables[name]) ELSE Good(IntV(0))

\* self.variables.get(name).cloned().ok_or_else(UndefinedError)
lookup(s, name) ==
  IF name \in DOMAIN s.variables
    THEN Good(s.variables[name])
    ELSE Bad(Err("UndefinedError", <<"Variable ", name, " not defined">>))

\* Interpreter::evaluate_expression; the result is [ok, val, err]
(***************************************************************************)
(* functions.rs: the string functions, and the dispatch of a function call *)
(* in Interpreter::evaluate_function_call.                                 *)
(***************************************************************************)
\* `i as usize` of an i32: a negative i becomes a count above 2^63, which
\* is beyond the length of every string
as_usize(i) == IF i < 0 THEN MaxI32 ELSE i

\* `chars.take(count)` and `chars[start..]` of a string
take(string, count) ==
  SubSeq(string, 1, IF count < Len(string) THEN count ELSE Len(string))
from(string, start) == SubSeq(string, start + 1, Len(string))

\* functions::left_fn
left_fn(s, n) ==
  With(as_integer(n), LAMBDA count :
    IF ~count.ok THEN Bad(count.err)
    ELSE Good(StrV(take(as_string(s), as_usize(count.n)))))

\* functions::right_fn taking the count for the start
right_fn_from_count(s, n) ==
  With(as_string(s), LAMBDA string : With(as_integer(n), LAMBDA count :
    IF ~count.ok THEN Bad(count.err)
    ELSE Good(StrV(from(string, IF as_usize(count.n) > Len(string) THEN 0
                                ELSE as_usize(count.n))))))

\* functions::right_fn
right_fn(s, n) ==
  With(as_string(s), LAMBDA string : With(as_integer(n), LAMBDA count :
    IF ~count.ok THEN Bad(count.err)
    ELSE Good(StrV(from(string, IF as_usize(count.n) > Len(string) THEN 0
                                ELSE Len(string) - as_usize(count.n))))))

\* functions::mid_fn; len is None, <<>>, or Some(length), <<length>>
mid_fn(s, start, len) ==
  With(as_string(s), LAMBDA string : With(as_integer(start), LAMBDA p :
    IF ~p.ok THEN Bad(p.err)
    ELSE IF p.n = MinI32 THEN Bad(Inexact)
    ELSE With(IF p.n - 1 > 0 THEN p.n - 1 ELSE 0, LAMBDA start_pos :
      IF start_pos >= Len(string) THEN Good(StrV(""))
      ELSE IF len = <<>> THEN Good(StrV(from(string, start_pos)))
      ELSE With(as_integer(len[1]), LAMBDA count :
        IF ~count.ok THEN Bad(count.err)
        ELSE Good(StrV(take(from(string, start_pos), as_usize(count.n))))))))

\* char::to_uppercase of the letters
UpperCase ==
  [a |-> "A", b |-> "B", c |-> "C", d |-> "D", e |-> "E", f |-> "F", g |-> "G",
   h |-> "H", i |-> "I", j |-> "J", k |-> "K", l |-> "L", m |-> "M", n |-> "N",
   o |-> "O", p |-> "P", q |-> "Q", r |-> "R", s |-> "S", t |-> "T", u |-> "U",
   v |-> "V", w |-> "W", x |-> "X", y |-> "Y", z |-> "Z"]

\* str::to_uppercase
RECURSIVE to_uppercase(_)
to_uppercase(string) ==
  IF string = "" THEN ""
  ELSE (IF SubSeq(string, 1, 1) \in DOMAIN UpperCase
          THEN UpperCase[SubSeq(string, 1, 1)] ELSE SubSeq(string, 1, 1))
         \o to_uppercase(SubSeq(string, 2, Len(string)))

\* an arm of the match on the upper-cased name: the name in its message, the
\* argument counts it accepts and how the message words them
Arm(label, counts, expected) ==
  [found |-> TRUE, label |-> label, counts |-> counts, expected |-> expected]
NoArm == [found |-> FALSE, label |-> "", counts |-> {}, expected |-> ""]

\* the names of the arms `"X" =>` that require 1 argument
OneArgument ==
  {"ABS", "INT", "FIX", "CINT", "CSNG", "CDBL", "SQR", "SIN", "COS", "TAN", "ATN",
   "EXP", "LOG", "SGN", "LEN", "ASC", "VAL", "PEEK", "INP"}

\* the match of evaluate_function_call
arm(upper) ==
  CASE upper \in OneArgument -> Arm(upper, {1}, "1 argument")
    [] upper \in {"CHR$", "CHR"} -> Arm("CHR$", {1}, "1 argument")
    [] upper \in {"STR$", "STR"} -> Arm("STR$", {1}, "1 argument")
    [] upper \in {"LEFT$", "LEFT"} -> Arm("LEFT$", {2}, "2 arguments")
    [] upper \in {"RIGHT$", "RIGHT"} -> Arm("RIGHT$", {2}, "2 arguments")
    [] upper \in {"MID$", "MID"} -> Arm("MID$", {2, 3}, "2 or 3 arguments")
    [] upper \in {"SPACE$", "SPACE"} -> Arm("SPACE$", {1}, "1 argument")
    [] upper \in {"STRING$", "STRING"} -> Arm("STRING$", {2}, "2 arguments")
    [] upper = "INSTR" -> Arm("INSTR", {2, 3}, "2 or 3 arguments")
    [] upper \in {"HEX$", "HEX"} -> Arm("HEX$", {1}, "1 argument")
    [] upper \in {"OCT$", "OCT"} -> Arm("OCT$", {1}, "1 argument")
    [] upper = "RND" -> Arm("RND", {0, 1}, "0 or 1 arguments")
    [] upper = "TIMER" -> Arm("TIMER", {0}, "0 arguments")
    [] OTHER -> NoArm

\* the body of an arm on the evaluated arguments
body(label, eval_args) ==
  CASE label = "LEFT$" -> left_fn(eval_args[1], eval_args[2])
    [] label = "RIGHT$" -> right_fn(eval_args[1], eval_args[2])
    [] label = "MID$" ->
         mid_fn(eval_args[1], eval_args[2],
                IF Len(eval_args) = 3 THEN <<eval_args[3]>> ELSE <<>>)
    [] OTHER -> Bad(Inexact)

\* the Result of a call and the arm whose body it has invoked, "" if none
Called(r, label) == [ok |-> r.ok, val |-> r.val, err |-> r.err, invoked |-> label]

\* evaluate_function_call after the arguments are evaluated, looking the
\* name up as it is written
dispatch_case_sensitive(name, eval_args) ==
  With(arm(name), LAMBDA a :
    IF ~a.found
      THEN Called(Bad(Err("UndefinedError", <<"Function ", name, " not defined">>)), "")
    ELSE IF Len(eval_args) \notin a.counts
      THEN Called(Bad(Err("RuntimeError", <<a.label, " requires ", a.expected>>)), "")
    ELSE Called(body(a.label, eval_args), a.label))

\* evaluate_function_call after the arguments are evaluated
dispatch(name, eval_args) ==
  With(arm(to_uppercase(name)), LAMBDA a :
    IF ~a.found
      THEN Called(Bad(Err("UndefinedError", <<"Function ", name, " not defined">>)), "")
    ELSE IF Len(eval_args) \notin a.counts
      THEN Called(Bad(Err("RuntimeError", <<a.label, " requires ", a.expected>>)), "")
    ELSE Called(body(a.label, eval_args), a.label))

RECURSIVE evaluate_expression(_, _), eval_args_from(_, _, _, _)

\* `args.iter().map(|arg| self.evaluate_expression(arg)).collect()?`, from
\* the i-th argument on: the values, or the first error
eval_args_from(s, args, i, vals) ==
  IF i > Len(args) THEN [ok |-> TRUE, vals |-> vals, err |-> Ok]
  ELSE With(evaluate_expression(s, args[i]), LAMBDA e :
         IF ~e.ok THEN [ok |-> FALSE, vals |-> <<>>, err |-> e.err]
         ELSE eval_args_from(s, args, i + 1, Append(vals, e.val)))

\* Interpreter::evaluate_function_call
evaluate_function_call(s, name, args) ==
  With(eval_args_from(s, args, 1, <<>>), LAMBDA eval_args :
    IF ~eval_args.ok THEN Called(Bad(eval_args.err), "")
    ELSE dispatch(name, eval_args.vals))

evaluate_expression(s, node) ==
  CASE node.op = "Literal" -> Good(node.val)
    [] node.op = "Variable" -> lookup(s, node.name)
    [] node.op = "BinaryOp" ->
         With(evaluate_expression(s, node.left), LAMBDA left_val :
           IF ~left_val.ok THEN left_val
           ELSE With(evaluate_expression(s, node.right), LAMBDA right_val :
             IF ~right_val.ok THEN right_val
             ELSE evaluate_binary_op(node.bop, left_val.val, right_val.val)))
    [] node.op = "UnaryOp" ->
         With(evaluate_expression(s, node.expr), LAMBDA val :
           IF ~val.ok THEN val ELSE evaluate_unary_op(node.uop, val.val))
    [] node.op = "FunctionCall" ->
         With(evaluate_function_call(s, node.name, node.args), LAMBDA r :
           [ok |-> r.ok, val |-> r.val, err |-> r.err])
    [] OTHER -> Bad(Err("RuntimeError", <<"Cannot evaluate node: ", node.op>>))

\* the condition of execute_if on the integer part of a number only
is_true_of_integer_part(v) ==
  CASE v.t \in {"Integer", "Single", "Double"} -> v.n # 0
    [] v.t = "String" -> v.s # ""
    [] v.t = "Nil" -> FALSE

\* the truthiness test of execute_if and execute_while
is_true(v) ==
  CASE v.t \in {"Integer", "Single", "Double"} -> v.n # 0 \/ v.h # 0
    [] v.t = "String" -> v.s # ""
    [] v.t = "Nil" -> FALSE

\* What evaluate_expression(&mut self, node) leaves of the session: on a
\* Variable that is bound to no value a binding to 0 is created
evaluated_binding_default(s, node) ==
  IF node.op = "Variable" /\ node.name \notin DOMAIN s.variables
    THEN [s EXCEPT !.variables = Insert(@, node.name, IntV(0))]
    ELSE s

\* What evaluate_expression(&mut self, node) leaves of the session: the arms
\* Literal, Variable, BinaryOp and UnaryOp assign no field of self
evaluated(s, node) == s

\* Interpreter::execute_print, from the i-th expression on
RECURSIVE print_from(_, _, _)
print_from(s, exprs, i) ==
  IF i > Len(exprs)
    THEN Done([s EXCEPT !.output = Append(@, "\n")], Ok)
    ELSE With(evaluate_expression(s, exprs[i]), LAMBDA e :
           IF ~e.ok THEN Done(evaluated(s, exprs[i]), e.err)
           ELSE LET s1 == [evaluated(s, exprs[i])
                             EXCEPT !.output = Append(@, Display(e.val))]
                    s2 == IF i < Len(exprs)
                            THEN [s1 EXCEPT !.output = Append(@, " ")] ELSE s1
                IN print_from(s2, exprs, i + 1))

execute_print(s, exprs) == print_from(s, exprs, 1)

\* Interpreter::execute_let binding the name to 0 when the evaluation fails
execute_let_default_on_error(s, name, expr) ==
  With(evaluate_expression(s, expr), LAMBDA e :
    IF ~e.ok THEN Done([s EXCEPT !.variables = Insert(@, name, IntV(0))], e.err)
    ELSE Done([evaluated(s, expr) EXCEPT !.variables = Insert(@, name, e.val)], Ok))

\* Interpreter::execute_let
execute_let(s, name, expr) ==
  With(evaluate_expression(s, expr), LAMBDA e :
    IF ~e.ok THEN Done(evaluated(s, expr), e.err)
    ELSE Done([evaluated(s, expr) EXCEPT !.variables = Insert(@, name, e.val)], Ok))

\* Interpreter::execute_for
execute_for(s, var, start, end, step) ==
  With(evaluate_expression(s, start), LAMBDA e1 :
  IF ~e1.ok THEN Done(s, e1.err) ELSE
  With(as_double(e1.val), LAMBDA d1 :
  IF ~d1.ok THEN Done(s, d1.err) ELSE
  With(evaluate_expression(s, end), LAMBDA e2 :
  IF ~e2.ok THEN Done(s, e2.err) ELSE
  With(as_double(e2.val), LAMBDA d2 :
  IF ~d2.ok THEN Done(s, d2.err) ELSE
  With(IF step # <<>> THEN evaluate_expression(s, step[1]) ELSE Good(DblV(1)), LAMBDA e3 :
  IF ~e3.ok THEN Done(s, e3.err) ELSE
  With(as_double(e3.val), LAMBDA d3 :
  IF ~d3.ok THEN Done(s, d3.err) ELSE
  LET step_val == d3.n
      state == [variable |-> var, end_value |-> d2.n, step |-> step_val,
                return_line |-> IF s.current_line = <<>> THEN 0
                                ELSE s.current_line[1]]
  IN Done([s EXCEPT !.variables = Insert(@, var, DblV(d1.n)),
                    !.for_stack = Append(@, state)], Ok)))))))

\* the continuation test without its equality: the loop stops one trip early
advance_frame_strict(s, state) ==
  IF state.variable \notin DOMAIN s.variables
    THEN Done(s, Err("UndefinedError",
           <<"Variable ", state.variable, " not defined">>))
  ELSE
    LET current == as_double(s.variables[state.variable])
        new_value == current.n + state.step
        should_continue == IF state.step > 0
                             THEN new_value < state.end_value
                             ELSE new_value > state.end_value
        s1 == [s EXCEPT !.variables = Insert(@, state.variable, DblV(new_value))]
    IN IF ~current.ok THEN Done(s, current.err)
       ELSE IF ~should_continue
         THEN Done([s1 EXCEPT !.for_stack = Front(@)], Ok)
         ELSE Done(s1, Ok)

\* Interpreter::execute_next, from the lookup of the loop variable on
advance_frame(s, state) ==
  IF state.variable \notin DOMAIN s.variables
    THEN Done(s, Err("UndefinedError",
           <<"Variable ", state.variable, " not defined">>))
  ELSE
    LET current == as_double(s.variables[state.variable])
        new_value == current.n + state.step
        should_continue == IF state.step > 0
                             THEN new_value <= state.end_value
                             ELSE new_value >= state.end_value
        s1 == [s EXCEPT !.variables = Insert(@, state.variable, DblV(new_value))]
    IN IF ~current.ok THEN Done(s, current.err)
       ELSE IF ~should_continue
         THEN Done([s1 EXCEPT !.for_stack = Front(@)], Ok)
         ELSE Done(s1, Ok)

\* the name given to NEXT is not compared with the frame's variable
next_on_frame_any_name(s, var) == advance_frame(s, s.for_stack[Len(s.for_stack)])

\* Interpreter::execute_next, the branch `if let Some(state) = for_stack.last()`
next_on_frame(s, var) ==
  LET state == s.for_stack[Len(s.for_stack)]
  IN IF var # "" /\ state.variable # var
       THEN Done(s, Err("RuntimeError",
              <<"NEXT variable mismatch: expected ", state.variable, ", got ", var>>))
       ELSE advance_frame(s, state)

\* an empty frame stack is let through as a no-op
execute_next_lenient(s, var) ==
  IF s.for_stack = <<>> THEN Done(s, Ok) ELSE next_on_frame(s, var)

\* Interpreter::execute_next
execute_next(s, var) ==
  IF s.for_stack = <<>>
    THEN Done(s, Err("RuntimeError", <<"NEXT without FOR">>))
    ELSE next_on_frame(s, var)

\* the target is not looked up in the store
execute_goto_unchecked(s, line) == Done([s EXCEPT !.current_line = <<line>>], Ok)

\* Interpreter::execute_goto
execute_goto(s, line) ==
  IF line \in DOMAIN s.lines
    THEN Done([s EXCEPT !.current_line = <<line>>], Ok)
    ELSE Done(s, Err("LineNumberError", <<"Line ", NatToString(line), " not found">>))

\* Interpreter::execute_gosub
execute_gosub(s, line) ==
  LET s1 == IF s.current_line # <<>>
              THEN [s EXCEPT !.call_stack = Append(@, s.current_line[1])]
              ELSE s
  IN execute_goto(s1, line)

\* an empty call stack is read as line 0
execute_return_default(s) ==
  IF s.call_stack # <<>>
    THEN Done([s EXCEPT !.current_line = <<s.call_stack[Len(s.call_stack)]>>,
                        !.call_stack = Front(@)], Ok)
    ELSE Done([s EXCEPT !.current_line = <<0>>],
              Err("RuntimeError", <<"RETURN without GOSUB">>))

\* Interpreter::execute_return
execute_return(s) ==
  IF s.call_stack # <<>>
    THEN Done([s EXCEPT !.current_line = <<s.call_stack[Len(s.call_stack)]>>,
                        !.call_stack = Front(@)], Ok)
    ELSE Done(s, Err("RuntimeError", <<"RETURN without GOSUB">>))

\* execute_node, AstNode::Read, from the i-th variable on
RECURSIVE read_from(_, _, _)
read_from(s, vars, i) ==
  IF i > Len(vars) THEN Done(s, Ok)
  ELSE IF s.data_pointer >= Len(s.data_items)
    THEN Done(s, Err("RuntimeError", <<"Out of DATA">>))
  ELSE LET val == s.data_items[s.data_pointer + 1]
       IN read_from([s EXCEPT !.variables = Insert(@, vars[i], val),
                              !.data_pointer = @ + 1,
                              !.read_log = Append(@, val)],
                    vars, i + 1)

\* the values are counted before any variable is bound
execute_read_all_or_nothing(s, vars) ==
  IF Len(vars) > Len(s.data_items) - s.data_pointer
    THEN Done(s, Err("RuntimeError", <<"Out of DATA">>))
    ELSE read_from(s, vars, 1)

execute_read(s, vars) == read_from(s, vars, 1)

\* execute_node, AstNode::Data, from the i-th value on
RECURSIVE data_from(_, _, _)
data_from(s, values, i) ==
  IF i > Len(values) THEN Done(s, Ok)
  ELSE With(evaluate_expression(s, values[i]), LAMBDA e :
         IF ~e.ok THEN Done(s, e.err)
         ELSE data_from([s EXCEPT !.data_items = Append(@, e.val)], values, i + 1))

execute_data(s, values) == data_from(s, values, 1)

\* the cursor is left where it is
execute_restore_keeps_cursor(s) == Done([s EXCEPT !.read_log = <<>>], Ok)

\* execute_node, AstNode::Restore
execute_restore(s) == Done([s EXCEPT !.data_pointer = 0, !.read_log = <<>>], Ok)

\* Iterations of one WHILE statement after which it is taken never to return.
WhileFuel == 3

\* a WHILE that never returns has no outcome; Hang stands for it
Hang == Err("Hang", <<>>)

\* the Swap arm of execute_node storing val2 in var1 before it reads var1
execute_swap_in_place(s, var1, var2) ==
  IF var1 \notin DOMAIN s.variables
    THEN Done(s, Err("UndefinedError", <<"Variable ", var1, " not defined">>))
  ELSE IF var2 \notin DOMAIN s.variables
    THEN Done(s, Err("UndefinedError", <<"Variable ", var2, " not defined">>))
  ELSE Done([s EXCEPT !.variables = Insert(@, var1, s.variables[var2])], Ok)

\* the Swap arm of Interpreter::execute_node
execute_swap(s, var1, var2) ==
  IF var1 \notin DOMAIN s.variables
    THEN Done(s, Err("UndefinedError", <<"Variable ", var1, " not defined">>))
  ELSE IF var2 \notin DOMAIN s.variables
    THEN Done(s, Err("UndefinedError", <<"Variable ", var2, " not defined">>))
  ELSE LET val1 == s.variables[var1]
           val2 == s.variables[var2]
       IN Done([s EXCEPT !.variables = Insert(Insert(@, var1, val2), var2, val1)],
               Ok)

\* the Line arm of execute_node keeping the statements a number already has
execute_line_keep_first(s, num, statements) ==
  IF num \in DOMAIN s.lines THEN Done(s, Ok)
  ELSE Done([s EXCEPT !.lines = Insert(@, num, statements)], Ok)

\* the Line arm of Interpreter::execute_node
execute_line(s, num, statements) ==
  Done([s EXCEPT !.lines = Insert(@, num, statements)], Ok)

RECURSIVE execute_node(_, _), exec_list(_, _, _), execute_while(_, _, _, _)
RECURSIVE exec_list_lenient(_, _, _)

\* every node is executed, whatever the node before it has returned
exec_list_lenient(s, nodes, i) ==
  IF i > Len(nodes) THEN Done(s, Ok)
  ELSE With(execute_node(s, nodes[i]), LAMBDA r :
         exec_list_lenient(r.s, nodes, i + 1))

\* `for stmt in stmts { self.execute_node(stmt)? }`, from the i-th node on
exec_list(s, nodes, i) ==
  IF i > Len(nodes) THEN Done(s, Ok)
  ELSE With(execute_node(s, nodes[i]), LAMBDA r :
         IF r.res # Ok THEN r ELSE exec_list(r.s, nodes, i + 1))

\* Interpreter::execute_if
execute_if(s, condition, then_stmts, has_else, else_stmts) ==
  With(evaluate_expression(s, condition), LAMBDA c :
    IF ~c.ok THEN Done(evaluated(s, condition), c.err)
    ELSE IF is_true(c.val) THEN exec_list(evaluated(s, condition), then_stmts, 1)
    ELSE IF has_else THEN exec_list(evaluated(s, condition), else_stmts, 1)
    ELSE Done(evaluated(s, condition), Ok))

\* Interpreter::execute_while
execute_while(s, condition, statements, fuel) ==
  With(evaluate_expression(s, condition), LAMBDA c :
    IF ~c.ok THEN Done(s, c.err)
    ELSE IF ~is_true(c.val) THEN Done(s, Ok)
    ELSE IF fuel = 0 THEN Done(s, Hang)
    ELSE With(exec_list(s, statements, 1), LAMBDA r :
      IF r.res # Ok THEN r
      ELSE execute_while(r.s, condition, statements, fuel - 1)))

\* Interpreter::execute_node
execute_node(s, node) ==
  CASE node.op = "Program" -> exec_list(s, node.body, 1)
    [] node.op = "Line" -> execute_line(s, node.line, node.body)
    [] node.op = "Print" -> execute_print(s, node.exprs)
    [] node.op = "Let" -> execute_let(s, node.name, node.expr)
    [] node.op = "If" ->
         execute_if(s, node.cond, node.then_stmts, node.has_else, node.else_stmts)
    [] node.op = "For" -> execute_for(s, node.name, node.start, node.end, node.step)
    [] node.op = "Next" -> execute_next(s, node.name)
    [] node.op = "While" -> execute_while(s, node.cond, node.body, WhileFuel)
    [] node.op = "Goto" -> execute_goto(s, node.line)
    [] node.op = "Gosub" -> execute_gosub(s, node.line)
    [] node.op = "Return" -> execute_return(s)
    [] node.op = "End" -> Done(s, ProgramEnd)
    [] node.op = "Stop" -> Done(s, ProgramEnd)
    [] node.op = "Rem" -> Done(s, Ok)
    [] node.op = "Read" -> execute_read(s, node.vars)
    [] node.op = "Data" -> execute_data(s, node.exprs)
    [] node.op = "Restore" -> execute_restore(s)
    [] node.op = "Swap" -> execute_swap(s, node.var1, node.var2)
    [] OTHER -> Done(s, Err("RuntimeError", <<"Cannot execute node: ", node.op>>))

\* Interpreter::execute
execute(s, ast) ==
  IF ast.op = "Program" THEN exec_list(s, ast.body, 1) ELSE execute_node(s, ast)

\* `line_numbers.sort()`: insertion of each key into an ascending sequence
RECURSIVE sort_insert(_, _)
sort_insert(sorted, x) ==
  IF sorted = <<>> THEN <<x>>
  ELSE IF x <= Head(sorted) THEN <<x>> \o sorted
  ELSE <<Head(sorted)>> \o sort_insert(Tail(sorted), x)

\* the sort left out: the keys stay in the order the map yields them
sort_omitted(keys) == keys

RECURSIVE sort(_)
sort(keys) ==
  IF keys = <<>> THEN <<>> ELSE sort_insert(sort(Front(keys)), keys[Len(keys)])

\* `self.lines.keys().copied().collect()`: the keys in any of the orders a
\* HashMap may iterate them
KeyOrders(map) ==
  {q \in [1..Cardinality(DOMAIN map) -> DOMAIN map] :
     \A i, j \in DOMAIN q : i # j => q[i] # q[j]}

(***************************************************************************)
(* parser.rs: Parser, a recursive descent over a Vec<Token>.  A position   *)
(* is the index of the current token, counted from 1; a parsing function   *)
(* returns its Result and the position it has advanced to.                 *)
(***************************************************************************)
\* TokenType: the variants without and with a payload
Token(type) == [type |-> type]
Integer(val) == [type |-> "Integer", val |-> val]
Identifier(name) == [type |-> "Identifier", name |-> name]
LineNumber(num) == [type |-> "LineNumber", num |-> num]

FunctionCall(name, args) == [op |-> "FunctionCall", name |-> name, args |-> args]

\* Ok(node) and Err(e) of a parsing function that has advanced to pos
Parsed(node, pos) == [ok |-> TRUE, node |-> node, pos |-> pos, err |-> Ok]
Failed(e, pos) == [ok |-> FALSE, node |-> <<>>, pos |-> pos, err |-> e]
SyntaxError(m) == Err("SyntaxError", m)

\* `let r = x?; K(r)`
Try(x, K(_)) == CHOOSE y \in {IF r.ok THEN K(r) ELSE r : r \in {x}} : TRUE

\* Parser::advance
advance(ts, p) == IF p < Len(ts) THEN p + 1 ELSE p

\* Parser::is_at_end
is_at_end(ts, p) == p > Len(ts)

\* the BinaryOperator of a token of parse_comparison, parse_addition and
\* parse_multiplication
ComparisonTokens ==
  [Equal |-> "Equal", NotEqual |-> "NotEqual", LessThan |-> "LessThan",
   GreaterThan |-> "GreaterThan", LessEqual |-> "LessEqual",
   GreaterEqual |-> "GreaterEqual"]
AdditionTokens == [Plus |-> "Add", Minus |-> "Subtract"]
MultiplicationTokens ==
  [Multiply |-> "Multiply", Divide |-> "Divide", IntDivide |-> "IntDivide",
   Mod |-> "Mod"]

RECURSIVE parse_expression(_, _), call_args(_, _, _, _), parse_unary(_, _),
          power_loop(_, _, _), multiplication_loop(_, _, _),
          addition_loop(_, _, _), comparison_loop(_, _, _),
          and_loop(_, _, _), or_loop(_, _, _)

\* Parser::parse_primary: the loop over the arguments of a function call
call_args(ts, name, args, p) ==
  Try(parse_expression(ts, p), LAMBDA e :
    IF ts[e.pos].type = "Comma"
      THEN call_args(ts, name, Append(args, e.node), advance(ts, e.pos))
    ELSE IF ts[e.pos].type = "RightParen"
      THEN Parsed(FunctionCall(name, Append(args, e.node)), advance(ts, e.pos))
    ELSE Failed(SyntaxError(<<"Expected ',' or ')' in function call">>), e.pos))

\* Parser::parse_primary
parse_primary(ts, p) ==
  CASE ts[p].type = "Integer" -> Parsed(Literal(IntV(ts[p].val)), advance(ts, p))
    [] ts[p].type = "Identifier" ->
         IF ts[advance(ts, p)].type = "LeftParen"
           THEN IF ts[advance(ts, advance(ts, p))].type = "RightParen"
                  THEN Parsed(FunctionCall(ts[p].name, <<>>),
                              advance(ts, advance(ts, advance(ts, p))))
                  ELSE call_args(ts, ts[p].name, <<>>, advance(ts, advance(ts, p)))
           ELSE Parsed(Variable(ts[p].name), advance(ts, p))
    [] ts[p].type = "LeftParen" ->
         Try(parse_expression(ts, advance(ts, p)), LAMBDA e :
           IF ts[e.pos].type = "RightParen"
             THEN Parsed(e.node, advance(ts, e.pos))
             ELSE Failed(SyntaxError(<<"Expected ')' after expression">>), e.pos))
    [] ts[p].type \in {"Float", "String"} -> Failed(Inexact, p)
    [] OTHER ->
         Failed(SyntaxError(<<"Unexpected token in expression: ", ts[p].type>>), p)

\* Parser::parse_unary
parse_unary(ts, p) ==
  CASE ts[p].type = "Minus" ->
         Try(parse_unary(ts, advance(ts, p)), LAMBDA e :
           Parsed(UnaryOp("Negate", e.node), e.pos))
    [] ts[p].type = "Not" ->
         Try(parse_unary(ts, advance(ts, p)), LAMBDA e :
           Parsed(UnaryOp("Not", e.node), e.pos))
    [] OTHER -> parse_primary(ts, p)

\* Parser::parse_power
power_loop(ts, lhs, p) ==
  IF ts[p].type = "Power"
    THEN Try(parse_unary(ts, advance(ts, p)), LAMBDA r :
           power_loop(ts, BinaryOp("Power", lhs, r.node), r.pos))
    ELSE Parsed(lhs, p)

parse_power(ts, p) ==
  Try(parse_unary(ts, p), LAMBDA l : power_loop(ts, l.node, l.pos))

\* Parser::parse_multiplication
multiplication_loop(ts, lhs, p) ==
  IF ts[p].type \in DOMAIN MultiplicationTokens
    THEN Try(parse_power(ts, advance(ts, p)), LAMBDA r :
           multiplication_loop(
             ts, BinaryOp(MultiplicationTokens[ts[p].type], lhs, r.node), r.pos))
    ELSE Parsed(lhs, p)

parse_multiplication(ts, p) ==
  Try(parse_power(ts, p), LAMBDA l : multiplication_loop(ts, l.node, l.pos))

\* Parser::parse_addition
addition_loop(ts, lhs, p) ==
  IF ts[p].type \in DOMAIN AdditionTokens
    THEN Try(parse_multiplication(ts, advance(ts, p)), LAMBDA r :
           addition_loop(ts, BinaryOp(AdditionTokens[ts[p].type], lhs, r.node), r.pos))
    ELSE Parsed(lhs, p)

\* Parser::parse_addition taking a power for its first operand
parse_addition_of_powers(ts, p) ==
  Try(parse_power(ts, p), LAMBDA l : addition_loop(ts, l.node, l.pos))

parse_addition(ts, p) ==
  Try(parse_multiplication(ts, p), LAMBDA l : addition_loop(ts, l.node, l.pos))

\* Parser::parse_comparison
comparison_loop(ts, lhs, p) ==
  IF ts[p].type \in DOMAIN ComparisonTokens
    THEN Try(parse_addition(ts, advance(ts, p)), LAMBDA r :
           comparison_loop(ts, BinaryOp(ComparisonTokens[ts[p].type], lhs, r.node),
                           r.pos))
    ELSE Parsed(lhs, p)

parse_comparison(ts, p) ==
  Try(parse_addition(ts, p), LAMBDA l : comparison_loop(ts, l.node, l.pos))

\* Parser::parse_and
and_loop(ts, lhs, p) ==
  IF ts[p].type = "And"
    THEN Try(parse_comparison(ts, advance(ts, p)), LAMBDA r :
           and_loop(ts, BinaryOp("And", lhs, r.node), r.pos))
    ELSE Parsed(lhs, p)

parse_and(ts, p) ==
  Try(parse_comparison(ts, p), LAMBDA l : and_loop(ts, l.node, l.pos))

\* Parser::parse_or
or_loop(ts, lhs, p) ==
  IF ts[p].type = "Or"
    THEN Try(parse_and(ts, advance(ts, p)), LAMBDA r :
           or_loop(ts, BinaryOp("Or", lhs, r.node), r.pos))
    ELSE Parsed(lhs, p)

parse_or(ts, p) == Try(parse_and(ts, p), LAMBDA l : or_loop(ts, l.node, l.pos))

\* Parser::parse_expression
parse_expression(ts, p) == parse_or(ts, p)

\* what one iteration of a loop of the parser does: it goes on to another
\* iteration ("again"), leaves the loop ("break") or returns an error from
\* the parsing function ("error"), the parser being at pos
Iterated(kind, pos) == [kind |-> kind, pos |-> pos, err |-> Ok, pushed |-> FALSE]
Errs(e, pos) == [kind |-> "error", pos |-> pos, err |-> e, pushed |-> FALSE]

\* an iteration that has pushed a node and goes on to another iteration
Pushed(pos) == [kind |-> "again", pos |-> pos, err |-> Ok, pushed |-> TRUE]

\* Parser::parse_rem: an iteration of the loop over the tokens of the comment
rem_iteration(ts, p) ==
  IF is_at_end(ts, p) \/ ts[p].type \in {"Eof", "Newline"}
    THEN Iterated("break", p)
    ELSE Iterated("again", advance(ts, p))

\* Parser::parse_primary: an iteration of the loop over the arguments of a
\* function call
arguments_iteration(ts, p) ==
  With(parse_expression(ts, p), LAMBDA e :
    IF ~e.ok THEN Errs(e.err, e.pos)
    ELSE IF ts[e.pos].type = "Comma" THEN Iterated("again", advance(ts, e.pos))
    ELSE IF ts[e.pos].type = "RightParen"
      THEN Iterated("break", advance(ts, e.pos))
    ELSE Errs(SyntaxError(<<"Expected ',' or ')' in function call">>), e.pos))

\* Parser::parse_dim: an iteration of the loop over the dimensions, which
\* pushes the dimension it has parsed
dimensions_iteration(ts, p) ==
  With(parse_expression(ts, p), LAMBDA e :
    IF ~e.ok THEN Errs(e.err, e.pos)
    ELSE IF ts[e.pos].type = "Comma" THEN Iterated("again", advance(ts, e.pos))
    ELSE IF ts[e.pos].type = "RightParen"
      THEN Iterated("break", advance(ts, e.pos))
    ELSE Errs(SyntaxError(<<"Expected ',' or ')' in DIM statement">>), e.pos))

RECURSIVE rem_loop(_, _), dim_loop(_, _, _, _)

\* Parser::parse_rem: the loop
rem_loop(ts, p) ==
  With(rem_iteration(ts, p), LAMBDA r :
    IF r.kind = "again" THEN rem_loop(ts, r.pos) ELSE Parsed(Rem, r.pos))

\* Parser::parse_rem
parse_rem(ts, p) == rem_loop(ts, advance(ts, p))

\* Parser::parse_dim: the loop, the dimensions so far being dims
dim_loop(ts, name, dims, p) ==
  With(dimensions_iteration(ts, p), LAMBDA r :
    IF r.kind = "error" THEN Failed(r.err, r.pos)
    ELSE With(Append(dims, parse_expression(ts, p).node), LAMBDA ds :
      IF r.kind = "again" THEN dim_loop(ts, name, ds, r.pos)
      ELSE Parsed(Dim(name, ds), r.pos)))

\* Parser::parse_dim
parse_dim(ts, p) ==
  IF ts[advance(ts, p)].type # "Identifier"
    THEN Failed(SyntaxError(<<"Expected array name">>), advance(ts, p))
  ELSE IF ts[advance(ts, advance(ts, p))].type # "LeftParen"
    THEN Failed(SyntaxError(<<"Expected '(' after array name">>),
                advance(ts, advance(ts, p)))
  ELSE dim_loop(ts, ts[advance(ts, p)].name, <<>>,
                advance(ts, advance(ts, advance(ts, p))))

RECURSIVE parse_statements_from(_, _, _), parse_statement(_, _),
          print_loop(_, _, _), parse_lines(_, _, _)

\* Parser::parse_statements
parse_statements(ts, p) == parse_statements_from(ts, <<>>, p)

\* Parser::parse_print: the loop over the expressions
print_loop(ts, exprs, p) ==
  IF is_at_end(ts, p) \/ ts[p].type \in {"Eof", "Newline", "Colon"}
    THEN Parsed(PrintNode(exprs), p)
  ELSE IF ts[p].type \in {"Semicolon", "Comma"}
    THEN print_loop(ts, exprs, advance(ts, p))
  ELSE Try(parse_expression(ts, p), LAMBDA e :
         print_loop(ts, Append(exprs, e.node), e.pos))

\* Parser::parse_print
parse_print(ts, p) == print_loop(ts, <<>>, advance(ts, p))

\* Parser::parse_let
parse_let(ts, p) ==
  IF ts[advance(ts, p)].type # "Identifier"
    THEN Failed(SyntaxError(<<"Expected variable name">>), advance(ts, p))
  ELSE IF ts[advance(ts, advance(ts, p))].type # "Equal"
    THEN Failed(SyntaxError(<<"Expected '=' in LET statement">>),
                advance(ts, advance(ts, p)))
  ELSE Try(parse_expression(ts, advance(ts, advance(ts, advance(ts, p)))),
           LAMBDA e : Parsed(Let(ts[advance(ts, p)].name, e.node), e.pos))

\* Parser::parse_if
parse_if(ts, p) ==
  Try(parse_expression(ts, advance(ts, p)), LAMBDA c :
    IF ts[c.pos].type # "Then"
      THEN Failed(SyntaxError(<<"Expected THEN after IF condition">>), c.pos)
      ELSE Try(parse_statements(ts, advance(ts, c.pos)), LAMBDA t :
             IF ts[t.pos].type = "Else"
               THEN Try(parse_statements(ts, advance(ts, t.pos)), LAMBDA e :
                      Parsed(If(c.node, t.node, TRUE, e.node), e.pos))
               ELSE Parsed(If(c.node, t.node, FALSE, <<>>), t.pos)))

\* Parser::parse_next
parse_next(ts, p) ==
  IF ts[advance(ts, p)].type = "Identifier"
    THEN Parsed(NextNode(ts[advance(ts, p)].name), advance(ts, advance(ts, p)))
    ELSE Parsed(NextNode(""), advance(ts, p))

\* Parser::parse_while
parse_while(ts, p) ==
  Try(parse_expression(ts, advance(ts, p)), LAMBDA c :
    Try(parse_statements(ts, c.pos), LAMBDA b :
      Parsed(While(c.node, b.node), b.pos)))

\* Parser::parse_goto
parse_goto(ts, p) ==
  IF ts[advance(ts, p)].type = "Integer"
    THEN Parsed(Goto(ts[advance(ts, p)].val), advance(ts, advance(ts, p)))
    ELSE Failed(SyntaxError(<<"Expected line number after GOTO">>), advance(ts, p))

\* Parser::parse_gosub
parse_gosub(ts, p) ==
  IF ts[advance(ts, p)].type = "Integer"
    THEN Parsed(Gosub(ts[advance(ts, p)].val), advance(ts, advance(ts, p)))
    ELSE Failed(SyntaxError(<<"Expected line number after GOSUB">>), advance(ts, p))

\* Parser::parse_statement, the arm of an Identifier: an assignment without LET
parse_assignment(ts, p) ==
  IF ts[advance(ts, p)].type = "Equal"
    THEN Try(parse_expression(ts, advance(ts, advance(ts, p))), LAMBDA e :
           Parsed(Let(ts[p].name, e.node), e.pos))
    ELSE Failed(SyntaxError(<<"Unexpected token after identifier: ",
                              ts[advance(ts, p)].type>>), advance(ts, p))

\* the statement keywords whose parsing functions are not modelled
OtherKeywords ==
  {"Input", "For", "Read", "Data", "Restore", "Cls", "Locate",
   "Color", "Pset", "Circle", "Beep", "Sound", "Randomize", "Swap"}

\* Parser::parse_statement
parse_statement(ts, p) ==
  CASE ts[p].type = "Print" -> parse_print(ts, p)
    [] ts[p].type = "Let" -> parse_let(ts, p)
    [] ts[p].type = "If" -> parse_if(ts, p)
    [] ts[p].type = "Next" -> parse_next(ts, p)
    [] ts[p].type = "While" -> parse_while(ts, p)
    [] ts[p].type = "Goto" -> parse_goto(ts, p)
    [] ts[p].type = "Gosub" -> parse_gosub(ts, p)
    [] ts[p].type = "Return" -> Parsed(Return, advance(ts, p))
    [] ts[p].type = "End" -> Parsed(End, advance(ts, p))
    [] ts[p].type = "Stop" -> Parsed(Stop, advance(ts, p))
    [] ts[p].type = "Dim" -> parse_dim(ts, p)
    [] ts[p].type = "Rem" -> parse_rem(ts, p)
    [] ts[p].type = "Identifier" -> parse_assignment(ts, p)
    [] ts[p].type \in OtherKeywords -> Failed(Inexact, p)
    [] OTHER -> Failed(SyntaxError(<<"Unexpected token: ", ts[p].type>>), p)

\* Parser::parse_statements: the loop, the statements so far being stmts
parse_statements_from(ts, stmts, p) ==
  IF is_at_end(ts, p) \/ ts[p].type = "Eof" THEN Parsed(stmts, p)
  ELSE IF ts[p].type = "Newline"
    THEN IF stmts # <<>> THEN Parsed(stmts, advance(ts, p))
         ELSE parse_statements_from(ts, stmts, advance(ts, p))
  ELSE IF ts[p].type = "Colon"
    THEN parse_statements_from(ts, stmts, advance(ts, p))
  ELSE Try(parse_statement(ts, p), LAMBDA s :
         parse_statements_from(ts, Append(stmts, s.node), s.pos))

\* Parser::parse_line
parse_line(ts, p) ==
  IF ts[p].type = "LineNumber"
    THEN Try(parse_statements(ts, advance(ts, p)), LAMBDA s :
           Parsed(Line(ts[p].num, s.node), s.pos))
    ELSE Try(parse_statements(ts, p), LAMBDA s :
           Parsed(IF Len(s.node) = 1 THEN s.node[1] ELSE Program(s.node), s.pos))

\* Parser::parse: the loop, the lines so far being nodes
parse_lines(ts, nodes, p) ==
  IF is_at_end(ts, p) \/ ts[p].type = "Eof" THEN Parsed(Program(nodes), p)
  ELSE Try(parse_line(ts, p), LAMBDA l :
         parse_lines(ts, Append(nodes, l.node), l.pos))

\* Parser::parse
parse(ts) == parse_lines(ts, <<>>, 1)

\* Parser::parse: an iteration of the loop over the lines
parse_iteration(ts, p) ==
  IF is_at_end(ts, p) \/ ts[p].type = "Eof" THEN Iterated("break", p)
  ELSE With(parse_line(ts, p), LAMBDA l :
         IF l.ok THEN Pushed(l.pos) ELSE Errs(l.err, l.pos))

\* Parser::parse_statements: an iteration of the loop, `empty` telling that
\* no statement has been pushed so far
statements_iteration(ts, empty, p) ==
  IF is_at_end(ts, p) \/ ts[p].type = "Eof" THEN Iterated("break", p)
  ELSE IF ts[p].type = "Newline"
    THEN Iterated(IF empty THEN "again" ELSE "break", advance(ts, p))
  ELSE IF ts[p].type = "Colon" THEN Iterated("again", advance(ts, p))
  ELSE With(parse_statement(ts, p), LAMBDA s :
         IF s.ok THEN Pushed(s.pos) ELSE Errs(s.err, s.pos))

\* a separator is left where it is
print_iteration_keeping_separator(ts, p) ==
  IF is_at_end(ts, p) \/ ts[p].type \in {"Eof", "Newline", "Colon"}
    THEN Iterated("break", p)
  ELSE IF ts[p].type \in {"Semicolon", "Comma"}
    THEN Iterated("again", p)
  ELSE With(parse_expression(ts, p), LAMBDA e :
         IF e.ok THEN Pushed(e.pos) ELSE Errs(e.err, e.pos))

\* Parser::parse_print: an iteration of the loop over the expressions
print_iteration(ts, p) ==
  IF is_at_end(ts, p) \/ ts[p].type \in {"Eof", "Newline", "Colon"}
    THEN Iterated("break", p)
  ELSE IF ts[p].type \in {"Semicolon", "Comma"}
    THEN Iterated("again", advance(ts, p))
  ELSE With(parse_expression(ts, p), LAMBDA e :
         IF e.ok THEN Pushed(e.pos) ELSE Errs(e.err, e.pos))

(***************************************************************************)
(* fileio.rs: FileManager.  The file system is the set of the paths at     *)
(* which a file exists; what the files hold is not modelled.  Every call   *)
(* of the operating system can fail, whatever the path: io says whether    *)
(* the operating system lets it succeed.                                   *)
(***************************************************************************)
\* enum FileMode
FileMode == {"Input", "Output", "Append", "Random"}

\* struct FileHandle; reader and writer are TRUE for Some, FALSE for None
FileHandle(mode, path, reader, writer) ==
  [file |-> TRUE, mode |-> mode, path |-> path, reader |-> reader,
   writer |-> writer]

\* FileManager::new
FileManager == [handles |-> EmptyMap]

\* HashMap::remove
Remove(map, key) == [k \in (DOMAIN map) \ {key} |-> map[k]]

\* the text of the std::io::Error in a message
OsError == "os error"

\* what a method leaves of the FileManager and of the file system, what it
\* returns, and the line that read_line returns
FileDone(fm, fs, r) == [fm |-> fm, fs |-> fs, res |-> r, line |-> ""]

\* a RuntimeError that names the file number
FileError(file_num, what) ==
  Err("RuntimeError", <<"File #", NumberToString(file_num, 0), what>>)

\* the first `match mode` of FileManager::open: whether the file is opened,
\* and the message when it is not
opens_file(fs, path, mode, io) ==
  IF mode = "Input" THEN path \in fs /\ io ELSE io
cannot_open(mode) ==
  CASE mode = "Input" -> "Cannot open file: "
    [] mode = "Output" -> "Cannot create file: "
    [] mode = "Append" -> "Cannot open file for append: "
    [] mode = "Random" -> "Cannot open random file: "

\* FileManager::open replacing the handle of a number that is open
open_over(fm, fs, file_num, path, mode, io) ==
  IF ~opens_file(fs, path, mode, io[1])
    THEN FileDone(fm, fs, Err("IoError", <<cannot_open(mode), OsError>>))
  ELSE With(IF mode = "Input" THEN fs ELSE fs \cup {path}, LAMBDA fs1 :
    IF mode = "Input" /\ ~io[2]
      THEN FileDone(fm, fs1, Err("IoError", <<"Cannot open file: ", OsError>>))
    ELSE IF mode \in {"Output", "Append"} /\ ~io[2]
      THEN FileDone(fm, fs1,
                    Err("IoError", <<"Cannot open file for writing: ", OsError>>))
    ELSE FileDone([fm EXCEPT !.handles =
                     Insert(@, file_num,
                            FileHandle(mode, path, mode = "Input",
                                       mode \in {"Output", "Append"}))],
                  fs1, Ok))

\* FileManager::open; io[1] and io[2] are the outcomes of its two calls of
\* the operating system
open(fm, fs, file_num, path, mode, io) ==
  IF file_num \in DOMAIN fm.handles
    THEN FileDone(fm, fs, FileError(file_num, " is already open"))
  ELSE IF ~opens_file(fs, path, mode, io[1])
    THEN FileDone(fm, fs, Err("IoError", <<cannot_open(mode), OsError>>))
  ELSE With(IF mode = "Input" THEN fs ELSE fs \cup {path}, LAMBDA fs1 :
    IF mode = "Input" /\ ~io[2]
      THEN FileDone(fm, fs1, Err("IoError", <<"Cannot open file: ", OsError>>))
    ELSE IF mode \in {"Output", "Append"} /\ ~io[2]
      THEN FileDone(fm, fs1,
                    Err("IoError", <<"Cannot open file for writing: ", OsError>>))
    ELSE FileDone([fm EXCEPT !.handles =
                     Insert(@, file_num,
                            FileHandle(mode, path, mode = "Input",
                                       mode \in {"Output", "Append"}))],
                  fs1, Ok))

\* FileManager::close; io is the outcome of the flush
close(fm, fs, file_num, io) ==
  IF file_num \in DOMAIN fm.handles
    THEN IF fm.handles[file_num].writer /\ ~io
           THEN FileDone([fm EXCEPT !.handles = Remove(@, file_num)], fs,
                         Err("IoError", <<"Error flushing file: ", OsError>>))
           ELSE FileDone([fm EXCEPT !.handles = Remove(@, file_num)], fs, Ok)
    ELSE FileDone(fm, fs, FileError(file_num, " is not open"))

\* FileManager::close_all, from the i-th of file_nums on; the HashMap gives
\* file_nums in an order of its own, and failing holds the numbers whose
\* flush fails (the first of them ends the loop)
RECURSIVE close_from(_, _, _, _, _)
close_from(fm, fs, file_nums, i, failing) ==
  IF i > Len(file_nums) THEN FileDone(fm, fs, Ok)
  ELSE With(close(fm, fs, file_nums[i], file_nums[i] \notin failing), LAMBDA c :
         IF c.res # Ok THEN c
         ELSE close_from(c.fm, c.fs, file_nums, i + 1, failing))

close_all(fm, fs, file_nums, failing) == close_from(fm, fs, file_nums, 1, failing)

\* FileManager::write_line writing through any handle
write_line_any_handle(fm, fs, file_num, io) ==
  IF file_num \in DOMAIN fm.handles
    THEN IF ~io
           THEN FileDone(fm, fs, Err("IoError", <<"Error writing to file: ", OsError>>))
           ELSE FileDone(fm, fs, Ok)
    ELSE FileDone(fm, fs, FileError(file_num, " is not open"))

\* FileManager::write_line; io is the outcome of writeln!
write_line(fm, fs, file_num, io) ==
  IF file_num \in DOMAIN fm.handles
    THEN IF fm.handles[file_num].writer
           THEN IF ~io
                  THEN FileDone(fm, fs,
                                Err("IoError", <<"Error writing to file: ", OsError>>))
                  ELSE FileDone(fm, fs, Ok)
           ELSE FileDone(fm, fs, FileError(file_num, " not open for writing"))
    ELSE FileDone(fm, fs, FileError(file_num, " is not open"))

\* str::trim_end
RECURSIVE trim_end(_)
trim_end(string) ==
  IF string # "" /\ SubSeq(string, Len(string), Len(string)) \in {" ", "\n", "\r", "\t"}
    THEN trim_end(SubSeq(string, 1, Len(string) - 1))
    ELSE string

\* FileManager::read_line; io is the outcome of BufRead::read_line and text
\* is what it reads: a line with its end, or nothing at the end of the file
read_line(fm, fs, file_num, io, text) ==
  IF file_num \in DOMAIN fm.handles
    THEN IF fm.handles[file_num].reader
           THEN IF ~io
                  THEN FileDone(fm, fs,
                                Err("IoError", <<"Error reading from file: ", OsError>>))
                  ELSE [FileDone(fm, fs, Ok) EXCEPT !.line = trim_end(text)]
           ELSE FileDone(fm, fs, FileError(file_num, " not open for reading"))
    ELSE FileDone(fm, fs, FileError(file_num, " is not open"))

(***************************************************************************)
(* graphics.rs: Screen.  The buffer holds ' ' or '#' in every cell: it is  *)
(* the set of the cells <<y, x>> that hold '#'.                            *)
(***************************************************************************)
\* Screen::new
Screen(width, height) ==
  [width |-> width, height |-> height, buffer |-> {}, cursor_x |-> 0,
   cursor_y |-> 0, fg_color |-> 7, bg_color |-> 0]

\* impl Default for Screen
DefaultScreen == Screen(80, 25)

\* what a method leaves of the Screen and what it returns
ScreenDone(scr, r) == [scr |-> scr, res |-> r]

\* Screen::cls
cls(scr) ==
  ScreenDone([scr EXCEPT !.buffer = {}, !.cursor_x = 0, !.cursor_y = 0], Ok)

\* Screen::locate refusing only the positions beyond height and width
locate_inclusive(scr, row, col) ==
  IF row > scr.height \/ col > scr.width
    THEN ScreenDone(scr, Err("RuntimeError",
           <<"LOCATE position out of range: (", NumberToString(row, 0), ", ",
             NumberToString(col, 0), ")">>))
    ELSE ScreenDone([scr EXCEPT !.cursor_y = row, !.cursor_x = col], Ok)

\* Screen::locate
locate(scr, row, col) ==
  IF row >= scr.height \/ col >= scr.width
    THEN ScreenDone(scr, Err("RuntimeError",
           <<"LOCATE position out of range: (", NumberToString(row, 0), ", ",
             NumberToString(col, 0), ")">>))
    ELSE ScreenDone([scr EXCEPT !.cursor_y = row, !.cursor_x = col], Ok)

\* Screen::color; fg and bg are None, <<>>, or Some(colour), <<colour>>
color(scr, fg, bg) ==
  ScreenDone([scr EXCEPT !.fg_color = IF fg # <<>> THEN fg[1] ELSE @,
                         !.bg_color = IF bg # <<>> THEN bg[1] ELSE @], Ok)

\* Screen::pset; the colour is not used
pset(scr, x, y) ==
  IF x < 0 \/ y < 0 \/ x >= scr.width \/ y >= scr.height
    THEN ScreenDone(scr, Ok)
    ELSE ScreenDone([scr EXCEPT !.buffer = @ \cup {<<y, x>>}], Ok)

(***************************************************************************)
(* The inputs: the stored programs a caller loads and the statements it    *)
(* types in direct mode.                                                   *)
(***************************************************************************)
Num(i) == Literal(IntV(i))

\* 10 GOTO 30 / 20 PRINT 2 / 30 PRINT 3
ProgGotoForward ==
  <<Line(10, <<Goto(30)>>), Line(20, <<PrintNode(<<Num(2)>>)>>),
    Line(30, <<PrintNode(<<Num(3)>>)>>)>>

\* 10 PRINT 1 / 20 GOTO 10 / 30 PRINT 3
ProgGotoBackward ==
  <<Line(10, <<PrintNode(<<Num(1)>>)>>), Line(20, <<Goto(10)>>),
    Line(30, <<PrintNode(<<Num(3)>>)>>)>>

\* 10 LET A = 1 : PRINT A / 20 REM / 30 PRINT 3
ProgStraight ==
  <<Line(10, <<Let("A", Num(1)), PrintNode(<<Variable("A")>>)>>),
    Line(20, <<Rem>>), Line(30, <<PrintNode(<<Num(3)>>)>>)>>

\* 10 FOR I = 1 TO 3 / 20 PRINT I / 30 NEXT I
ProgForUp ==
  <<Line(10, <<For("I", Num(1), Num(3), <<>>)>>),
    Line(20, <<PrintNode(<<Variable("I")>>)>>), Line(30, <<NextNode("I")>>)>>

\* 10 FOR I = 3 TO 1 STEP -1 / 20 PRINT I / 30 NEXT
ProgForDown ==
  <<Line(10, <<For("I", Num(3), Num(1), <<Num(-1)>>)>>),
    Line(20, <<PrintNode(<<Variable("I")>>)>>), Line(30, <<NextNode("")>>)>>

\* 10 FOR I = 2 TO 2 / 20 PRINT I / 30 NEXT I
ProgForOnce ==
  <<Line(10, <<For("I", Num(2), Num(2), <<>>)>>),
    Line(20, <<PrintNode(<<Variable("I")>>)>>), Line(30, <<NextNode("I")>>)>>

\* 10 GOSUB 30 : PRINT 1 / 20 PRINT 2 / 30 RETURN : PRINT 3
ProgGosub ==
  <<Line(10, <<Gosub(30), PrintNode(<<Num(1)>>)>>),
    Line(20, <<PrintNode(<<Num(2)>>)>>),
    Line(30, <<Return, PrintNode(<<Num(3)>>)>>)>>

\* 10 GOSUB 20 / 20 GOSUB 30 / 30 RETURN : RETURN : RETURN
ProgGosubNested ==
  <<Line(10, <<Gosub(20)>>), Line(20, <<Gosub(30)>>),
    Line(30, <<Return, Return, Return>>)>>

\* 10 READ A / 20 DATA 1, 2
ProgReadBeforeData ==
  <<Line(10, <<Read(<<"A">>)>>), Line(20, <<Data(<<Num(1), Num(2)>>)>>)>>

\* 10 DATA 1, 2 : READ A / 20 RESTORE : READ I / 30 READ A, I
ProgData ==
  <<Line(10, <<Data(<<Num(1), Num(2)>>), Read(<<"A">>)>>),
    Line(20, <<Restore, Read(<<"I">>)>>), Line(30, <<Read(<<"A", "I">>)>>)>>

\* 10 PRINT 1 : STOP : PRINT 2 / 20 PRINT 3
ProgStop ==
  <<Line(10, <<PrintNode(<<Num(1)>>), Stop, PrintNode(<<Num(2)>>)>>),
    Line(20, <<PrintNode(<<Num(3)>>)>>)>>

\* 10 NEXT / 20 PRINT 2
ProgNext == <<Line(10, <<NextNode("")>>), Line(20, <<PrintNode(<<Num(2)>>)>>)>>

\* 10 FOR I = 1 TO 3 / 20 FOR A = 1 TO 2 / 30 NEXT A : NEXT A : NEXT I
ProgForNested ==
  <<Line(10, <<For("I", Num(1), Num(3), <<>>)>>),
    Line(20, <<For("A", Num(1), Num(2), <<>>)>>),
    Line(30, <<NextNode("A"), NextNode("A"), NextNode("I")>>)>>

\* 10 LET A = 1 : LET I = 2 : LET J = "X" / 20 SWAP A, J : SWAP A, I /
\* 30 SWAP J, J : SWAP Z, A
ProgSwap ==
  <<Line(10, <<Let("A", Num(1)), Let("I", Num(2)), Let("J", Literal(StrV("X")))>>),
    Line(20, <<Swap("A", "J"), Swap("A", "I")>>),
    Line(30, <<Swap("J", "J"), Swap("Z", "A")>>)>>

\* IF 1 THEN PRINT 2 : END : PRINT 3
IfEnd ==
  If(Num(1), <<PrintNode(<<Num(2)>>), End, PrintNode(<<Num(3)>>)>>, FALSE, <<>>)

\* 10 PRINT 1 : IF 1 THEN PRINT 2 : END : PRINT 3
ProgIfEnd == <<Line(10, <<PrintNode(<<Num(1)>>), IfEnd>>)>>

\* WHILE A : PRINT A : LET I = 1 / 0 : PRINT 2
WhileFails ==
  While(Variable("A"),
        <<PrintNode(<<Variable("A")>>),
          Let("I", BinaryOp("Divide", Num(1), Num(0))), PrintNode(<<Num(2)>>)>>)

\* 10 LET A = 1 : WHILE A : PRINT A : LET I = 1 / 0 : PRINT 2
ProgWhileFails == <<Line(10, <<Let("A", Num(1)), WhileFails>>)>>

\* 10 DATA 1, 2 : READ A
ProgDataRead == <<Line(10, <<Data(<<Num(1), Num(2)>>), Read(<<"A">>)>>)>>

Programs ==
  {ProgDataRead, ProgSwap, ProgGotoForward, ProgGotoBackward, ProgStraight, ProgForUp, ProgForDown,
   ProgForOnce, ProgGosub, ProgGosubNested, ProgReadBeforeData, ProgData,
   ProgStop, ProgNext, ProgForNested, ProgIfEnd, ProgWhileFails}

\* the lines of a program in any source order
Orderings(prog) ==
  {q \in [1..Len(prog) -> {prog[i] : i \in 1..Len(prog)}] :
     \A i, j \in DOMAIN q : i # j => q[i] # q[j]}

\* what Parser::parse returns for a source text of numbered lines
NumberedInputs == {Program(q) : q \in UNION {Orderings(p) : p \in Programs}}

\* 10 LET A = 1 / 20 REM / 10 REM
Renumbered ==
  Program(<<Line(10, <<Let("A", Num(1))>>), Line(20, <<Rem>>), Line(10, <<Rem>>)>>)

\* LET A = 5 / 10 LET A = 1 : GOSUB 10 / PRINT A / LET A = 7
Mixed ==
  Program(<<Let("A", Num(5)), Line(10, <<Let("A", Num(1)), Gosub(10)>>),
            PrintNode(<<Variable("A")>>), Let("A", Num(7))>>)

ProgramInputs == NumberedInputs \cup {Renumbered, Mixed}

\* the expression -2147483647 - 1, whose value is Double(-2147483648)
MostNegative == BinaryOp("Subtract", UnaryOp("Negate", Num(MaxI32)), Num(1))

\* what Parser::parse returns for one unnumbered statement: Program of it
\* the conditions of the IF statements typed in direct mode
Conditions ==
  {Num(0), Num(-1), Literal(HalfV(1)), Literal(StrV("")), Literal(StrV("X")),
   Literal(NilV), Variable("A")}

\* IF c THEN PRINT 1 : PRINT 3 ELSE PRINT 2
IfElse(c) ==
  If(c, <<PrintNode(<<Num(1)>>), PrintNode(<<Num(3)>>)>>, TRUE,
     <<PrintNode(<<Num(2)>>)>>)

\* IF c THEN PRINT 1 : PRINT 3
IfThen(c) ==
  If(c, <<PrintNode(<<Num(1)>>), PrintNode(<<Num(3)>>)>>, FALSE, <<>>)

IfStmts ==
  {IfElse(c) : c \in Conditions} \cup {IfThen(Num(0)), IfThen(Literal(StrV("X")))}

DirectStmts ==
  IfStmts \cup
  {Gosub(10), Gosub(40), Goto(10), Goto(40), Return, NextNode("I"),
   NextNode("J"), NextNode(""), End,
   If(Num(1), <<End>>, FALSE, <<>>), While(Num(1), <<Stop>>),
   Data(<<Num(1), Num(2)>>), Read(<<"A">>), Read(<<"A", "I">>), Restore,
   For("I", Num(1), Num(3), <<>>), PrintNode(<<Variable("A")>>),
   Let("A", Num(5)), Let("A", Num(7)), Swap("A", "I"), Swap("I", "A"),
   Let("A", BinaryOp("Divide", Num(1), Num(0))),
   Let("I", BinaryOp("Add", Variable("A"), Num(1))),
   PrintNode(<<BinaryOp("Divide", Num(1), Num(0))>>),
   PrintNode(<<Num(1), BinaryOp("Divide", Num(1), Num(0))>>),
   PrintNode(<<Num(1), Variable("A")>>),
   PrintNode(<<BinaryOp("IntDivide", MostNegative, UnaryOp("Negate", Num(1)))>>),
   PrintNode(<<BinaryOp("Add", Num(2), BinaryOp("Multiply", Num(3), Num(4)))>>),
   PrintNode(<<UnaryOp("Negate", Literal(StrV("X")))>>)}

\* SWAP A, I : SWAP A, I
SwapTwice == Program(<<Swap("A", "I"), Swap("A", "I")>>)

DirectInputs == {Program(<<st>>) : st \in DirectStmts} \cup {SwapTwice}

(***************************************************************************)
(* The state machine                                                       *)
(***************************************************************************)
VARIABLES
  variables, lines, current_line, call_stack, for_stack, data_items,
  data_pointer,       \* the fields of Interpreter
  output,             \* the text the call in progress has written
  read_log,           \* history: values bound by READ since the last RESTORE
  pc,                 \* "idle", the position of run: "line" / "stmt", or
                      \* "aborted" once a panic has unwound the thread
  line_numbers, line_index, statements, stmt_index,   \* the locals of run
  trace,              \* history: the statements the last run has executed
  result,             \* what the last execute/run call returned
  last_call,          \* "execute" or "run", the last call made
  ncalls,             \* number of calls made
  operator, left, right, value,   \* an operator, its operands and its result
  predicates,         \* what is_numeric and is_string say of the left operand
  RNG_STATE,          \* functions.rs: the thread-local RNG_STATE of each thread
  thread,             \* the thread each session runs on
  seen,               \* history: what RND has returned to each session
  alone,              \* session B run without session A: its RNG_STATE and
                      \* what RND returns to it
  nrnd,               \* number of RND calls made
  source,             \* the source text: its lines and their statements
  tokens, position,   \* the fields of Parser
  parsed,             \* what Parser::parse has returned
  scan,               \* the loop of the parser that is being iterated
  call,               \* the FunctionCall node to evaluate
  handles,            \* fileio.rs: the field of FileManager
  disk,               \* the paths at which a file exists
  file_op,            \* the last call of a FileManager method and its result
  screen,             \* graphics.rs: the fields of Screen
  screen_op,          \* the last call of a Screen method and its result
  loop                \* execute_while: its arguments, its position and the
                      \* history of the call in progress

fields == <<variables, lines, current_line, call_stack, for_stack, data_items,
            data_pointer, output, read_log>>
locals == <<line_numbers, line_index, statements, stmt_index>>
operation == <<operator, left, right, value, predicates>>
interpreter == <<fields, pc, locals, trace, result, last_call, ncalls>>
sessions == <<RNG_STATE, thread, seen, alone, nrnd>>
parser == <<source, tokens, position, parsed, scan>>
files == <<handles, disk, file_op>>
devices == <<files, screen, screen_op>>
vars == <<interpreter, operation, sessions, parser, call, devices, loop>>

Session ==
  [variables |-> variables, lines |-> lines, current_line |-> current_line,
   call_stack |-> call_stack, for_stack |-> for_stack,
   data_items |-> data_items, data_pointer |-> data_pointer,
   output |-> output, read_log |-> read_log]

Becomes(s) ==
  /\ variables' = s.variables
  /\ lines' = s.lines
  /\ current_line' = s.current_line
  /\ call_stack' = s.call_stack
  /\ for_stack' = s.for_stack
  /\ data_items' = s.data_items
  /\ data_pointer' = s.data_pointer
  /\ output' = s.output
  /\ read_log' = s.read_log

\* nothing has been evaluated
NoOperation ==
  /\ operator = "none" /\ value = NoResult
  /\ predicates = [is_numeric |-> FALSE, is_string |-> FALSE]

\* the session after Interpreter::new
Created ==
  /\ variables = new.variables
  /\ lines = new.lines
  /\ current_line = new.current_line
  /\ call_stack = new.call_stack
  /\ for_stack = new.for_stack
  /\ data_items = new.data_items
  /\ data_pointer = new.data_pointer
  /\ output = new.output
  /\ read_log = new.read_log
  /\ pc = "idle"
  /\ line_numbers = <<>> /\ line_index = 0 /\ statements = <<>> /\ stmt_index = 0
  /\ trace = <<>>
  /\ result = NoCall
  /\ last_call = "none"
  /\ ncalls = 0

\* the threads and the sessions of them
Threads == {1, 2}
SessionNames == {"A", "B"}

\* thread_local! { static RNG_STATE: RefCell<u64> = RefCell::new(12345) }
RngInit == 12345

\* no session has called RND
NoSessions ==
  /\ RNG_STATE = [th \in Threads |-> RngInit]
  /\ seen = [n \in SessionNames |-> <<>>]
  /\ alone = [state |-> RngInit, seen |-> <<>>]
  /\ nrnd = 0

\* execute_while has not been called
NoLoop ==
  [at |-> "none", condition |-> NilV, statements |-> <<>>, index |-> 0,
   condition_value |-> <<>>, stmt_error |-> FALSE,
   truthy |-> 0, bodies |-> 0, entry |-> new, res |-> NoCall]

\* no method of the FileManager or of the Screen has been called
NoFileOp ==
  [op |-> "none", file_num |-> 0, path |-> "", mode |-> "", io |-> <<>>,
   res |-> NoCall, line |-> ""]
NoScreenOp == [op |-> "none", args |-> <<>>, res |-> NoCall]

\* the FileManager after FileManager::new, no file existing, and the Screen
\* after Screen::default
NoDevices ==
  /\ handles = FileManager.handles /\ disk = {} /\ file_op = NoFileOp
  /\ screen = DefaultScreen /\ screen_op = NoScreenOp
  /\ loop = NoLoop

\* no loop of the parser is being iterated
NoScan == [loop |-> "none", empty |-> TRUE, done |-> FALSE, res |-> NoCall]

\* no text is being parsed and no function is being called
NoParser ==
  /\ source = <<>> /\ tokens = <<>> /\ position = 0 /\ parsed = NoResult
  /\ scan = NoScan
  /\ call = NilV

Init ==
  /\ Created /\ NoOperation /\ left = NilV /\ right = NilV
  /\ NoSessions /\ thread = [n \in SessionNames |-> 1]
  /\ NoParser
  /\ NoDevices

\* the outcomes the model has no state for
Unmodelled == {Hang, Inexact}

\* a call of Interpreter::execute(ast)
Execute(ast) ==
  /\ pc = "idle"
  /\ ncalls < MaxCalls
  /\ \E r \in {execute([Session EXCEPT !.output = <<>>], ast)} :
        /\ r.res \notin Unmodelled
        /\ Becomes(r.s)
        /\ result' = r.res
        /\ pc' = IF r.res.kind = "Panic" THEN "aborted" ELSE pc
  /\ last_call' = "execute"
  /\ ncalls' = ncalls + 1
  /\ UNCHANGED <<locals, trace, operation, sessions, parser, call, devices, loop>>

\* a source text of numbered lines is loaded
Load == \E ast \in ProgramInputs : Execute(ast)

\* a statement is typed in direct mode
Direct == \E ast \in DirectInputs : Execute(ast)

\* run starts from a session without data, as after Interpreter::new
RunBeginResets ==
  /\ pc = "idle"
  /\ ncalls < MaxCalls
  /\ \E keys \in KeyOrders(lines) : line_numbers' = sort(keys)
  /\ line_index' = 1
  /\ pc' = "line"
  /\ trace' = <<>>
  /\ output' = <<>>
  /\ last_call' = "run"
  /\ ncalls' = ncalls + 1
  /\ data_items' = <<>> /\ data_pointer' = 0 /\ read_log' = <<>>
  /\ UNCHANGED <<variables, lines, current_line, call_stack, for_stack,
                 statements, stmt_index,
                 result, operation, sessions, parser, call, devices, loop>>

\* Interpreter::run is called: the keys are collected and sorted
RunBegin ==
  /\ pc = "idle"
  /\ ncalls < MaxCalls
  /\ \E keys \in KeyOrders(lines) : line_numbers' = sort(keys)
  /\ line_index' = 1
  /\ pc' = "line"
  /\ trace' = <<>>
  /\ output' = <<>>
  /\ last_call' = "run"
  /\ ncalls' = ncalls + 1
  /\ UNCHANGED <<variables, lines, current_line, call_stack, for_stack,
                 data_items, data_pointer, read_log, statements, stmt_index,
                 result, operation, sessions, parser, call, devices, loop>>

\* run returns r: its locals are dropped
Returns(r) ==
  /\ result' = r
  /\ pc' = IF r.kind = "Panic" THEN "aborted" ELSE "idle"
  /\ line_numbers' = <<>> /\ line_index' = 0
  /\ statements' = <<>> /\ stmt_index' = 0

\* run: the head of the loop over line_numbers
RunLine ==
  /\ pc = "line"
  /\ line_index <= Len(line_numbers)
  /\ LET line_num == line_numbers[line_index]
     IN /\ current_line' = <<line_num>>
        /\ IF line_num \in DOMAIN lines /\ lines[line_num] # <<>>
             THEN /\ statements' = lines[line_num]
                  /\ stmt_index' = 1
                  /\ pc' = "stmt"
                  /\ UNCHANGED line_index
             ELSE /\ line_index' = line_index + 1
                  /\ UNCHANGED <<statements, stmt_index, pc>>
  /\ UNCHANGED <<variables, lines, call_stack, for_stack, data_items,
                 data_pointer, output, read_log, line_numbers, trace, result,
                 last_call, ncalls, operation, sessions, parser, call, devices, loop>>

\* run: one statement of the current line is executed
RunStmt ==
  /\ pc = "stmt"
  /\ \E stmt \in {statements[stmt_index]} :
     \E r \in {execute_node(Session, stmt)} :
        /\ r.res \notin Unmodelled
        /\ Becomes(r.s)
        /\ trace' = Append(trace,
             [line |-> line_numbers[line_index], idx |-> stmt_index,
              stmt |-> stmt, res |-> r.res,
              before |-> call_stack, after |-> r.s.call_stack])
        /\ IF r.res # Ok
             THEN Returns(IF r.res = ProgramEnd THEN Ok ELSE r.res)
             ELSE IF stmt_index < Len(statements)
               THEN /\ stmt_index' = stmt_index + 1
                    /\ UNCHANGED <<pc, line_numbers, line_index, statements, result>>
               ELSE /\ line_index' = line_index + 1
                    /\ pc' = "line"
                    /\ UNCHANGED <<line_numbers, statements, stmt_index, result>>
  /\ UNCHANGED <<last_call, ncalls, operation, sessions, parser, call, devices, loop>>

\* run: the loop over line_numbers is exhausted
RunEnd ==
  /\ pc = "line"
  /\ line_index > Len(line_numbers)
  /\ Returns(Ok)
  /\ UNCHANGED <<fields, trace, last_call, ncalls, operation, sessions, parser, call, devices, loop>>

Next == Load \/ Direct \/ RunBegin \/ RunLine \/ RunStmt \/ RunEnd

Spec == Init /\ [][Next]_vars

(***************************************************************************)
(* The operators on their own: the operands are drawn from Operands, and   *)
(* each action applies one operator of the evaluator to them.              *)
(***************************************************************************)
MaxOperand == 4

Odd(k) == k % 2 = 1

Operands ==
  {IntV(i) : i \in (0 - MaxOperand)..MaxOperand} \cup {IntV(MinI32), IntV(MaxI32)}
    \cup {HalfV(k) : k \in {j \in (0 - (2 * MaxOperand + 1))..(2 * MaxOperand + 1) : Odd(j)}}
    \cup {DblV(MinI32), DblV(0 - 1), DblV(0), SingleV(3), StrV("2"), StrV("abc"), NilV}

\* the numbers whose sums, products and quotients the model can hold
Small(v) == v.n \in (0 - (MaxOperand + 1))..MaxOperand

\* Result<i32> as a Result<Value>
IntegerResult(i) == IF i.ok THEN Good(IntV(i.n)) ELSE Bad(i.err)

InitEval ==
  /\ Created /\ NoOperation /\ NoParser
  /\ NoSessions /\ thread = [n \in SessionNames |-> 1]
  /\ left \in Operands
  /\ right \in Operands
  /\ NoDevices

Evaluated(op, r) ==
  /\ r.err \notin Unmodelled
  /\ operator' = op
  /\ value' = r
  /\ UNCHANGED <<left, right, predicates, interpreter, sessions, parser, call, devices, loop>>

\* evaluate_binary_op is applied to the operands
EvalBinary ==
  \E op \in BinaryOperator :
    /\ op \in ArithmeticOps \cup {"Divide"} => Small(left) /\ Small(right)
    /\ Evaluated(op, evaluate_binary_op(op, left, right))

\* evaluate_unary_op is applied to the left operand
EvalUnary ==
  \E op \in UnaryOperator :
    /\ op = "Negate" => Small(left)
    /\ Evaluated(op, evaluate_unary_op(op, left))

\* Value::as_integer is applied to the left operand
EvalAsInteger ==
  \E r \in {IntegerResult(as_integer(left))} : Evaluated("as_integer", r)

\* Value::is_numeric and Value::is_string are applied to the left operand
EvalPredicates ==
  /\ operator' = "predicates"
  /\ predicates' = [is_numeric |-> is_numeric(left), is_string |-> is_string(left)]
  /\ value' = NoResult
  /\ UNCHANGED <<left, right, interpreter, sessions, parser, call, devices, loop>>

NextEval == EvalBinary \/ EvalUnary \/ EvalAsInteger \/ EvalPredicates

SpecEval == InitEval /\ [][NextEval]_vars

(***************************************************************************)
(* functions.rs : rnd_fn, and the sessions that call it.  RNG_STATE is a   *)
(* thread_local static: one cell per thread, used by every session that    *)
(* runs on the thread.                                                     *)
(***************************************************************************)
MaxRnd == 3

\* a + b modulo 2^31, for a and b below 2^31
add_mod31(a, b) ==
  IF b = 0 THEN a
  ELSE LET c == (MaxI32 - b) + 1
       IN IF a >= c THEN a - c ELSE a + b

\* the three 15-bit limbs of a number below 2^31
Limb(x, i) == (x \div (32768 ^ i)) % 32768

\* a * k modulo 2^31, for a and k below 2^31: the products of the limbs that
\* reach below bit 31
mul_mod31(a, k) ==
  add_mod31(
    add_mod31(Limb(a, 0) * Limb(k, 0),
              ((Limb(a, 0) * Limb(k, 1) + Limb(a, 1) * Limb(k, 0)) % 65536) * 32768),
    ((Limb(a, 0) * Limb(k, 2) + Limb(a, 1) * Limb(k, 1) + Limb(a, 2) * Limb(k, 0)) % 2)
      * 1073741824)

\* (s * 1103515245 + 12345) & 0x7fffffff
lcg(s) == add_mod31(mul_mod31(s, 1103515245), 12345)

\* Ok(Value::Single(k / 1000000)) and Err(e), as [ok, millionths, err]
RndOk(k) == [ok |-> TRUE, millionths |-> k, err |-> Ok]
RndErr(e) == [ok |-> FALSE, millionths |-> 0, err |-> e]

\* (sv.abs() * 1000000.0) as u64, for sv < 0
seed_state(sv) == (0 - sv.n) * 1000000 - sv.h * 500000

\* rnd_fn(seed) on the RNG_STATE s; the result is [state, res]
rnd_fn(s, seed) ==
  LET sv == IF seed = <<>> THEN as_double(NilV) ELSE as_double(seed[1])
      negative == seed # <<>> /\ sv.n < 0
      zero == seed # <<>> /\ f64_is_zero(sv)
      s1 == lcg(IF negative THEN seed_state(sv) ELSE s)
  IN IF ~sv.ok THEN [state |-> s, res |-> RndErr(sv.err)]
     ELSE IF zero THEN [state |-> s, res |-> RndOk((s % 1000) * 1000)]
     ELSE [state |-> s1, res |-> RndOk(s1 % 1000000)]

\* the arguments of RND, RND(0), RND(1), RND(-1) and RND("abc")
Seeds == {<<>>, <<IntV(0)>>, <<IntV(1)>>, <<DblV(0 - 1)>>, <<StrV("abc")>>}

InitSessions ==
  /\ Created /\ NoOperation /\ left = NilV /\ right = NilV /\ NoParser
  /\ NoSessions
  /\ thread \in [SessionNames -> Threads]
  /\ NoDevices

\* session n evaluates RND with the argument seed; had session B been run
\* without session A, it would have made the same call on a state of its own
Rnd(n, seed) ==
  /\ nrnd < MaxRnd
  /\ LET r == rnd_fn(RNG_STATE[thread[n]], seed)
         q == rnd_fn(alone.state, seed)
     IN /\ RNG_STATE' = [RNG_STATE EXCEPT ![thread[n]] = r.state]
        /\ seen' = [seen EXCEPT ![n] = Append(@, r.res)]
        /\ alone' = IF n = "B"
                      THEN [state |-> q.state, seen |-> Append(alone.seen, q.res)]
                      ELSE alone
  /\ nrnd' = nrnd + 1
  /\ UNCHANGED <<thread, interpreter, operation, parser, call, devices, loop>>

RndA == \E seed \in Seeds : Rnd("A", seed)

RndB == \E seed \in Seeds : Rnd("B", seed)

NextSessions == RndA \/ RndB

SpecSessions == InitSessions /\ [][NextSessions]_vars

(***************************************************************************)
(* A second specification of the parser alone: a source text is tokenized  *)
(* and Parser::parse is applied to its tokens.  A source is a sequence of  *)
(* physical lines, each an optional line number and the token lists of its *)
(* colon-separated statements, and may end in a newline.                   *)
(***************************************************************************)
MaxLines == 2

RECURSIVE statement_tokens(_, _), line_tokens(_, _)

\* the tokens of the statements of a line from the i-th on, colons between
statement_tokens(stmts, i) ==
  IF i > Len(stmts) THEN <<>>
  ELSE stmts[i] \o (IF i < Len(stmts) THEN <<Token("Colon")>> ELSE <<>>)
         \o statement_tokens(stmts, i + 1)

\* the tokens of the lines of a source from the i-th on, and the final Eof
line_tokens(src, i) ==
  IF i > Len(src.lines) THEN <<Token("Eof")>>
  ELSE (IF src.lines[i].num # <<>> THEN <<LineNumber(src.lines[i].num[1])>>
        ELSE <<>>)
         \o statement_tokens(src.lines[i].stmts, 1)
         \o (IF i < Len(src.lines) \/ src.newline THEN <<Token("Newline")>>
             ELSE <<>>)
         \o line_tokens(src, i + 1)

\* Lexer::tokenize
tokenize(src) == line_tokens(src, 1)

\* the binary operator tokens
BinaryTokens ==
  {"Or", "And", "Power"} \cup DOMAIN ComparisonTokens \cup DOMAIN AdditionTokens
    \cup DOMAIN MultiplicationTokens

UnaryTokens == {"Minus", "Not"}

\* 2 op1 3 op2 4 / 2 op1 (3 op2 4) / u 2 op 3 / 2 op u 3 / u1 u2 2
Chain(op1, op2) ==
  <<Integer(2), Token(op1), Integer(3), Token(op2), Integer(4)>>
Grouped(op1, op2) ==
  <<Integer(2), Token(op1), Token("LeftParen"), Integer(3), Token(op2),
    Integer(4), Token("RightParen")>>
Prefixed(u, op) == <<Token(u), Integer(2), Token(op), Integer(3)>>
Suffixed(op, u) == <<Integer(2), Token(op), Token(u), Integer(3)>>
Twice(u1, u2) == <<Token(u1), Token(u2), Integer(2)>>

Expressions ==
  {Chain(op1, op2) : <<op1, op2>> \in BinaryTokens \X BinaryTokens}
    \cup {Grouped(op1, op2) : <<op1, op2>> \in BinaryTokens \X BinaryTokens}
    \cup {Prefixed(u, op) : <<u, op>> \in UnaryTokens \X BinaryTokens}
    \cup {Suffixed(op, u) : <<op, u>> \in BinaryTokens \X UnaryTokens}
    \cup {Twice(u1, u2) : <<u1, u2>> \in UnaryTokens \X UnaryTokens}

\* PRINT e
PrintTokens(e) == <<Token("Print")>> \o e

\* PRINT 1, A = 1, GOTO 10, END
SimpleStatements ==
  {PrintTokens(<<Integer(1)>>), <<Identifier("A"), Token("Equal"), Integer(1)>>,
   <<Token("Goto"), Integer(10)>>, <<Token("End")>>}

\* 1, A < 3
ConditionTokens == {<<Integer(1)>>, <<Identifier("A"), Token("LessThan"), Integer(3)>>}

\* IF c THEN s1 / IF c THEN s1 ELSE s2 / IF c s1 / WHILE c : s1
IfTokens(c, s1) == <<Token("If")>> \o c \o <<Token("Then")>> \o s1
IfElseTokens(c, s1, s2) == IfTokens(c, s1) \o <<Token("Else")>> \o s2
IfWithoutThen(c, s1) == <<Token("If")>> \o c \o s1
WhileTokens(c, s1) == <<Token("While")>> \o c \o <<Token("Colon")>> \o s1

IfStatements ==
  {IfTokens(c, s1) : <<c, s1>> \in ConditionTokens \X SimpleStatements}
IfElseStatements ==
  {IfElseTokens(c, s1, s2) :
     <<c, s1, s2>> \in ConditionTokens \X SimpleStatements \X SimpleStatements}
IfWithoutThenStatements ==
  {IfWithoutThen(c, s1) : <<c, s1>> \in ConditionTokens \X SimpleStatements}

\* the statements of a physical line: one or two simple statements, an IF
\* alone or after a simple statement, a WHILE
LineBodies ==
  {<<s>> : s \in SimpleStatements}
    \cup {<<s, PrintTokens(<<Integer(1)>>)>> : s \in SimpleStatements}
    \cup {<<s>> : s \in {IfTokens(c, <<Token("End")>>) : c \in ConditionTokens}}
    \cup {<<<<Token("End")>>, IfTokens(<<Integer(1)>>, PrintTokens(<<Integer(1)>>))>>,
          <<WhileTokens(<<Integer(1)>>, <<Token("End")>>)>>}

\* a source of one line typed in direct mode
DirectSource(stmts) ==
  [lines |-> <<[num |-> <<>>, stmts |-> stmts]>>, newline |-> FALSE]

\* a source of n lines numbered 10, 20, ...
NumberedSource(bodies, newline) ==
  [lines |-> [i \in DOMAIN bodies |-> [num |-> <<10 * i>>, stmts |-> bodies[i]]],
   newline |-> newline]

Sources ==
  {DirectSource(<<PrintTokens(e)>>) : e \in Expressions}
    \cup {DirectSource(<<s>>) :
            s \in IfStatements \cup IfElseStatements \cup IfWithoutThenStatements}
    \cup {NumberedSource(bodies, nl) :
            <<bodies, nl>> \in
              (UNION {[1..n -> LineBodies] : n \in 1..MaxLines}) \X BOOLEAN}

InitParse ==
  /\ Created /\ NoOperation /\ left = NilV /\ right = NilV
  /\ NoSessions /\ thread = [n \in SessionNames |-> 1]
  /\ call = NilV
  /\ source \in Sources
  /\ tokens = tokenize(source)
  /\ position = 1
  /\ parsed = NoResult
  /\ scan = NoScan
  /\ NoDevices

\* Parser::new(tokens).parse()
Parse ==
  /\ parsed = NoResult
  /\ \E r \in {parse(tokens)} :
        /\ r.err \notin Unmodelled
        /\ parsed' = IF r.ok THEN Good(r.node) ELSE Bad(r.err)
        /\ position' = r.pos
  /\ UNCHANGED <<source, tokens, scan, call, interpreter, operation, sessions, devices, loop>>

NextParse == Parse

SpecParse == InitParse /\ [][NextParse]_vars

(***************************************************************************)
(* A third specification of the function calls alone: a FunctionCall node  *)
(* is evaluated in a new session.                                          *)
(***************************************************************************)
MaxCount == 6
MaxArgs == 4

Strings == {"", "A", "HELLO"}
Counts == (0 - 1)..MaxCount \cup {MaxI32}
Spellings ==
  {"LEFT$", "left$", "Left", "RIGHT$", "Mid", "ABS", "abs", "RND", "timer",
   "INSTR", "chr", "FOO", "LEFT$$", "LEN$"}

\* LEFT$(s, k), RIGHT$(s, k), MID$(s, p, k) and MID$(s, p)
StringCalls ==
  {FunctionCall(f, <<Literal(StrV(s)), Num(k)>>) :
     <<f, s, k>> \in {"LEFT$", "RIGHT$"} \X Strings \X Counts}
    \cup {FunctionCall("MID$", <<Literal(StrV(s)), Num(p), Num(k)>>) :
            <<s, p, k>> \in Strings \X Counts \X Counts}
    \cup {FunctionCall("MID$", <<Literal(StrV(s)), Num(p)>>) :
            <<s, p>> \in Strings \X Counts}

\* f(), f(1), f(1, 1), ... and f(1 / 0), f(1, A) with A undefined
CountedCalls ==
  {FunctionCall(f, [i \in 1..n |-> Num(1)]) : <<f, n>> \in Spellings \X (0..MaxArgs)}
FailingCalls ==
  {FunctionCall(f, a) :
     <<f, a>> \in Spellings \X {<<BinaryOp("Divide", Num(1), Num(0))>>,
                                <<Num(1), Variable("A")>>}}

InitCall ==
  /\ Created /\ NoOperation /\ left = NilV /\ right = NilV
  /\ NoSessions /\ thread = [n \in SessionNames |-> 1]
  /\ source = <<>> /\ tokens = <<>> /\ position = 0 /\ parsed = NoResult
  /\ scan = NoScan
  /\ call \in StringCalls \cup CountedCalls \cup FailingCalls
  /\ NoDevices

\* evaluate_function_call is applied to the name and the arguments of call
Call ==
  /\ operator = "none"
  /\ \E r \in {evaluate_function_call(Session, call.name, call.args)} :
        /\ r.err \notin Unmodelled
        /\ value' = r
  /\ operator' = "call"
  /\ UNCHANGED <<left, right, predicates, call, interpreter, sessions, parser, devices, loop>>

NextCall == Call

SpecCall == InitCall /\ [][NextCall]_vars

(***************************************************************************)
(* A specification of the FileManager alone: a caller opens, closes,       *)
(* writes and reads files by number.                                       *)
(***************************************************************************)
MaxFiles == 2

FileNums == 1..MaxFiles
Paths == {"A.DAT"}

\* what BufRead::read_line reads: nothing, or a line and its end
Texts == {"", "A B \r\n"}

\* the outcomes of the two calls of the operating system in open: the
\* second is not made when the first has failed
Outcomes == {<<TRUE, TRUE>>, <<TRUE, FALSE>>, <<FALSE, TRUE>>}

\* the orders in which a HashMap can give the keys S
Orders(S) ==
  {q \in [1..Cardinality(S) -> S] : \A k \in S : \E i \in DOMAIN q : q[i] = k}

InitFiles ==
  /\ Created /\ NoOperation /\ left = NilV /\ right = NilV
  /\ NoSessions /\ thread = [n \in SessionNames |-> 1]
  /\ NoParser
  /\ handles = FileManager.handles /\ file_op = NoFileOp
  /\ disk \in SUBSET Paths
  /\ screen = DefaultScreen /\ screen_op = NoScreenOp
  /\ loop = NoLoop

\* a method of the FileManager has returned d
FileReturns(op, file_num, path, mode, io, d) ==
  /\ handles' = d.fm.handles
  /\ disk' = d.fs
  /\ file_op' = [op |-> op, file_num |-> file_num, path |-> path, mode |-> mode,
                 io |-> io, res |-> d.res, line |-> d.line]
  /\ UNCHANGED <<interpreter, operation, sessions, parser, call, screen, screen_op, loop>>

FileOpen ==
  \E file_num \in FileNums, path \in Paths, mode \in FileMode,
     io \in Outcomes :
    FileReturns("open", file_num, path, mode, io,
                open([handles |-> handles], disk, file_num, path, mode, io))

FileClose ==
  \E file_num \in FileNums, io \in BOOLEAN :
    FileReturns("close", file_num, "", "", <<io>>,
                close([handles |-> handles], disk, file_num, io))

FileCloseAll ==
  \E file_nums \in Orders(DOMAIN handles),
     failing \in {{}} \cup {{k} : k \in DOMAIN handles} :
    FileReturns("close_all", 0, "", "", <<>>,
                close_all([handles |-> handles], disk, file_nums, failing))

FileWriteLine ==
  \E file_num \in FileNums, io \in BOOLEAN :
    FileReturns("write_line", file_num, "", "", <<io>>,
                write_line([handles |-> handles], disk, file_num, io))

FileReadLine ==
  \E file_num \in FileNums, io \in BOOLEAN, text \in Texts :
    FileReturns("read_line", file_num, "", "", <<io>>,
                read_line([handles |-> handles], disk, file_num, io, text))

NextFiles == FileOpen \/ FileClose \/ FileCloseAll \/ FileWriteLine \/ FileReadLine

SpecFiles == InitFiles /\ [][NextFiles]_vars

(***************************************************************************)
(* A specification of the Screen alone: a caller clears the default        *)
(* screen, moves the cursor, sets the colours and sets pixels.             *)
(***************************************************************************)
\* the rows, columns and coordinates of the calls: the first and the last of
\* the screen, and those next to them outside it
Rows == {0, DefaultScreen.height - 1, DefaultScreen.height, MaxI32}
Cols == {0, DefaultScreen.width - 1, DefaultScreen.width}
Xs == {0 - 1, 0, DefaultScreen.width - 1, DefaultScreen.width}
Ys == {MinI32, 0, DefaultScreen.height - 1, DefaultScreen.height}
\* Option<u8>
Colours == {<<>>, <<0>>, <<15>>}

InitScreen ==
  /\ Created /\ NoOperation /\ left = NilV /\ right = NilV
  /\ NoSessions /\ thread = [n \in SessionNames |-> 1]
  /\ NoParser
  /\ NoDevices

\* a method of the Screen has returned d
ScreenReturns(op, args, d) ==
  /\ screen' = d.scr
  /\ screen_op' = [op |-> op, args |-> args, res |-> d.res]
  /\ UNCHANGED <<interpreter, operation, sessions, parser, call, files, loop>>

ScreenCls == ScreenReturns("cls", <<>>, cls(screen))

ScreenLocate ==
  \E row \in Rows, col \in Cols :
    ScreenReturns("locate", <<row, col>>, locate(screen, row, col))

ScreenColor ==
  \E fg \in Colours, bg \in Colours :
    ScreenReturns("color", <<fg, bg>>, color(screen, fg, bg))

ScreenPset ==
  \E x \in Xs, y \in Ys : ScreenReturns("pset", <<x, y>>, pset(screen, x, y))

NextScreen == ScreenCls \/ ScreenLocate \/ ScreenColor \/ ScreenPset

SpecScreen == InitScreen /\ [][NextScreen]_vars

(***************************************************************************)
(* A session in which a program is loaded and then run again and again.    *)
(***************************************************************************)
\* a source text of numbered lines is loaded into the new session
LoadOnce == ncalls = 0 /\ Load

NextRerun == LoadOnce \/ RunBegin \/ RunLine \/ RunStmt \/ RunEnd

SpecRerun == Init /\ [][NextRerun]_vars

(***************************************************************************)
(* The loops of the parser, one iteration at a time.  A loop is entered at *)
(* a position of the token sequence at which the parser enters it, and is  *)
(* iterated until an iteration leaves it or returns an error.              *)
(***************************************************************************)
\* REM A 1 : END / DIM A(2, 3) / DIM A(2 / PRINT F(1, G(), 2); 1, 2 /
\* PRINT F(1 2)
RemTokens ==
  <<Token("Rem"), Identifier("A"), Integer(1), Token("Colon"), Token("End")>>
DimTokens ==
  <<Token("Dim"), Identifier("A"), Token("LeftParen"), Integer(2),
    Token("Comma"), Integer(3), Token("RightParen")>>
DimUnclosed == <<Token("Dim"), Identifier("A"), Token("LeftParen"), Integer(2)>>
CallTokens ==
  PrintTokens(<<Identifier("F"), Token("LeftParen"), Integer(1), Token("Comma"),
                Identifier("G"), Token("LeftParen"), Token("RightParen"),
                Token("Comma"), Integer(2), Token("RightParen"),
                Token("Semicolon"), Integer(1), Token("Comma"), Integer(2)>>)
CallWithoutComma ==
  PrintTokens(<<Identifier("F"), Token("LeftParen"), Integer(1), Integer(2),
                Token("RightParen")>>)

ListStatements == {RemTokens, DimTokens, DimUnclosed, CallTokens, CallWithoutComma}

ListSources ==
  {DirectSource(<<s>>) : s \in ListStatements}
    \cup {NumberedSource(<<<<s1>>, <<<<Token("End")>>, s2>>>>, nl) :
            <<s1, s2, nl>> \in ListStatements \X ListStatements \X BOOLEAN}

\* token sequences ending in Eof that are the tokens of no source text
RawTokens ==
  {<<Token("Eof")>>,
   <<Token("Newline"), Token("Colon"), Token("Newline"), Token("Eof")>>,
   <<Token("Print"), Token("Comma"), Token("Semicolon"), Token("Eof")>>,
   <<Token("Print"), Token("Eof"), Token("Rem"), Token("Eof")>>,
   <<Token("Rem"), Token("Rem"), Token("Eof")>>,
   <<Token("Print"), Identifier("F"), Token("LeftParen"), Integer(1),
     Token("Comma"), Token("Eof")>>,
   <<Token("Then"), Token("Eof")>>,
   <<LineNumber(10), LineNumber(20), Token("Eof")>>}

ScannedTokens == {tokenize(s) : s \in Sources \cup ListSources} \cup RawTokens

\* the positions at which the parser enters a loop: parse at the first
\* token; parse_statements at the first token of a line, after its number
\* if it has one, after THEN and ELSE and after the condition of a WHILE;
\* parse_print and parse_rem after the keyword; the loops over the
\* arguments and the dimensions after the left parenthesis
Entries(ts) ==
  {<<"parse", 1>>}
    \cup {<<"statements", q>> : q \in
            {q \in 1..Len(ts) :
               IF q = 1 THEN ts[q].type # "LineNumber"
               ELSE \/ ts[q - 1].type \in {"LineNumber", "Then", "Else"}
                    \/ ts[q - 1].type = "Newline" /\ ts[q].type # "LineNumber"}}
    \cup {<<"statements", parse_expression(ts, q + 1).pos>> : q \in
            {q \in 1..(Len(ts) - 1) :
               ts[q].type = "While" /\ parse_expression(ts, q + 1).ok}}
    \cup {<<"print", q>> : q \in {q \in 2..Len(ts) : ts[q - 1].type = "Print"}}
    \cup {<<"rem", q>> : q \in {q \in 2..Len(ts) : ts[q - 1].type = "Rem"}}
    \cup {<<"arguments", q>> : q \in
            {q \in 3..Len(ts) :
               /\ ts[q - 2].type = "Identifier" /\ ts[q - 1].type = "LeftParen"
               /\ ts[q].type # "RightParen"}}
    \cup {<<"dimensions", q>> : q \in
            {q \in 4..Len(ts) :
               /\ ts[q - 3].type = "Dim" /\ ts[q - 2].type = "Identifier"
               /\ ts[q - 1].type = "LeftParen"}}

InitLoops ==
  /\ Created /\ NoOperation /\ left = NilV /\ right = NilV
  /\ NoSessions /\ thread = [n \in SessionNames |-> 1]
  /\ call = NilV
  /\ source = <<>>
  /\ tokens \in ScannedTokens
  /\ position = 1
  /\ parsed = NoResult
  /\ scan = NoScan
  /\ NoDevices

\* the parser enters one of its loops
LoopEnter ==
  /\ scan.loop = "none"
  /\ \E e \in Entries(tokens) :
       /\ scan' = [NoScan EXCEPT !.loop = e[1]]
       /\ position' = e[2]
  /\ UNCHANGED <<source, tokens, parsed, call, interpreter, operation,
                 sessions, devices, loop>>

\* the loop that is being iterated has made the iteration r
Iterates(r) ==
  /\ r.err \notin Unmodelled
  /\ position' = r.pos
  /\ scan' = [scan EXCEPT !.empty = @ /\ ~r.pushed, !.done = r.kind # "again",
                          !.res = r.err]
  /\ UNCHANGED <<source, tokens, parsed, call, interpreter, operation,
                 sessions, devices, loop>>

Iterating(name) == scan.loop = name /\ ~scan.done

ParseIteration ==
  Iterating("parse") /\ Iterates(parse_iteration(tokens, position))

StatementsIteration ==
  /\ Iterating("statements")
  /\ Iterates(statements_iteration(tokens, scan.empty, position))

PrintIteration ==
  Iterating("print") /\ Iterates(print_iteration(tokens, position))

RemIteration == Iterating("rem") /\ Iterates(rem_iteration(tokens, position))

ArgumentsIteration ==
  Iterating("arguments") /\ Iterates(arguments_iteration(tokens, position))

DimensionsIteration ==
  Iterating("dimensions") /\ Iterates(dimensions_iteration(tokens, position))

NextLoops ==
  \/ LoopEnter \/ ParseIteration \/ StatementsIteration \/ PrintIteration
  \/ RemIteration \/ ArgumentsIteration \/ DimensionsIteration

SpecLoops == InitLoops /\ [][NextLoops]_vars

\* the thread that runs the parser goes on running it
LiveLoops == SpecLoops /\ WF_vars(NextLoops)

(***************************************************************************)
(* Interpreter::execute_while step by step: the evaluation of the          *)
(* condition, its test and each statement of the body are one step each.   *)
(* The frame of the call is                                                *)
(*   [at, condition, statements, index, condition_value, stmt_error,       *)
(*    truthy, bodies, entry, res]                                          *)
(* with at the position ("condition", "test", "body", "returned"), index   *)
(* the position in the body, condition_value what the last evaluation of   *)
(* the condition returned, and the history of the call: the number of      *)
(* evaluations found true and of complete passes through the body (both    *)
(* counted up to MaxIterations + 1), whether a statement of the body has   *)
(* failed, and the session at the call.                                    *)
(***************************************************************************)
MaxIterations == 3

Count(n) == IF n > MaxIterations THEN n ELSE n + 1

\* the session and the frame after a step
Stepped(s, frame) == [s |-> s, frame |-> frame]

\* the condition is tested after the first pass through the body only
while_step_body_first(s, frame) ==
  CASE frame.at = "condition" ->
         With(evaluate_expression(s, frame.condition), LAMBDA c :
           Stepped(evaluated(s, frame.condition),
             IF ~c.ok
               THEN [frame EXCEPT !.at = "returned", !.res = c.err,
                                  !.condition_value = <<c>>]
               ELSE [frame EXCEPT !.at = "test", !.condition_value = <<c>>]))
    [] frame.at = "test" ->
         Stepped(s,
           IF ~is_true(frame.condition_value[1].val) /\ frame.bodies > 0
             THEN [frame EXCEPT !.at = "returned", !.res = Ok]
           ELSE IF frame.statements = <<>>
             THEN [frame EXCEPT !.at = "condition", !.truthy = Count(@),
                                !.bodies = Count(@)]
           ELSE [frame EXCEPT !.at = "body", !.index = 1, !.truthy = Count(@)])
    [] frame.at = "body" ->
         With(execute_node(s, frame.statements[frame.index]), LAMBDA r :
           Stepped(r.s,
             IF r.res # Ok
               THEN [frame EXCEPT !.at = "returned", !.res = r.res,
                                  !.stmt_error = TRUE]
             ELSE IF frame.index < Len(frame.statements)
               THEN [frame EXCEPT !.index = @ + 1]
             ELSE [frame EXCEPT !.at = "condition", !.index = 0,
                                !.bodies = Count(@)]))

\* Interpreter::execute_while, one step from the position of the frame:
\* `self.evaluate_expression(&condition)?`, then `if !is_true { break; }`,
\* then one `self.execute_node(stmt.clone())?` of the loop over statements
while_step(s, frame) ==
  CASE frame.at = "condition" ->
         With(evaluate_expression(s, frame.condition), LAMBDA c :
           Stepped(evaluated(s, frame.condition),
             IF ~c.ok
               THEN [frame EXCEPT !.at = "returned", !.res = c.err,
                                  !.condition_value = <<c>>]
               ELSE [frame EXCEPT !.at = "test", !.condition_value = <<c>>]))
    [] frame.at = "test" ->
         Stepped(s,
           IF ~is_true(frame.condition_value[1].val)
             THEN [frame EXCEPT !.at = "returned", !.res = Ok]
           ELSE IF frame.statements = <<>>
             THEN [frame EXCEPT !.at = "condition", !.truthy = Count(@),
                                !.bodies = Count(@)]
           ELSE [frame EXCEPT !.at = "body", !.index = 1, !.truthy = Count(@)])
    [] frame.at = "body" ->
         With(execute_node(s, frame.statements[frame.index]), LAMBDA r :
           Stepped(r.s,
             IF r.res # Ok
               THEN [frame EXCEPT !.at = "returned", !.res = r.res,
                                  !.stmt_error = TRUE]
             ELSE IF frame.index < Len(frame.statements)
               THEN [frame EXCEPT !.index = @ + 1]
             ELSE [frame EXCEPT !.at = "condition", !.index = 0,
                                !.bodies = Count(@)]))

\* LET A = A - 1
Decrement == Let("A", BinaryOp("Subtract", Variable("A"), Num(1)))

\* WHILE A : LET I = A : LET A = A - 1
CountDown == While(Variable("A"), <<Let("I", Variable("A")), Decrement>>)

\* WHILE A : LET I = A
Forever == While(Variable("A"), <<Let("I", Variable("A"))>>)

\* WHILE 1
EmptyBody == While(Num(1), <<>>)

\* WHILE A : LET I = 2 : LET I = 1 / 0 : LET A = 0
BodyFails ==
  While(Variable("A"),
        <<Let("I", Num(2)), Let("I", BinaryOp("Divide", Num(1), Num(0))),
          Let("A", Num(0))>>)

\* WHILE A : LET A = A - 1 : IF A = 1 THEN STOP
BodyStops ==
  While(Variable("A"),
        <<Decrement,
          If(BinaryOp("Equal", Variable("A"), Num(1)), <<Stop>>, FALSE, <<>>)>>)

\* WHILE A \ A : LET A = A - 1
ConditionFails ==
  While(BinaryOp("IntDivide", Variable("A"), Variable("A")), <<Decrement>>)

Loops == {CountDown, Forever, EmptyBody, BodyFails, BodyStops, ConditionFails}

\* LET A = k is typed in direct mode, before the WHILE
WhileSetup ==
  /\ loop.at = "none"
  /\ \E k \in 0..MaxIterations : Execute(Program(<<Let("A", Num(k))>>))

\* execute_while(condition, statements) is called
WhileCall ==
  /\ pc = "idle"
  /\ loop.at = "none"
  /\ \E st \in Loops :
       loop' = [NoLoop EXCEPT !.at = "condition", !.condition = st.cond,
                              !.statements = st.body, !.entry = Session]
  /\ UNCHANGED <<interpreter, operation, sessions, parser, call, devices>>

\* execute_while takes a step
WhileStep ==
  /\ loop.at \in {"condition", "test", "body"}
  /\ \E r \in {while_step(Session, loop)} :
       /\ r.frame.res \notin Unmodelled
       /\ Becomes(r.s)
       /\ loop' = r.frame
  /\ UNCHANGED <<pc, locals, trace, result, last_call, ncalls, operation,
                 sessions, parser, call, devices>>

NextWhile == WhileSetup \/ WhileCall \/ WhileStep

SpecWhile == Init /\ [][NextWhile]_vars

\* the thread that has called execute_while goes on running it
LiveWhile == SpecWhile /\ WF_vars(NextWhile)

(***************************************************************************)
(* Properties                                                              *)
(***************************************************************************)
Last(q) == q[Len(q)]

\* the last call was run, and it has returned
RunReturned == pc = "idle" /\ last_call = "run"

\* C1: during run, after a GOTO L that succeeds the next statement executed
\* is the first statement of line L (and run does not return instead).
C1_GotoRedirects ==
  /\ \A i \in 1..Len(trace) :
       (i < Len(trace) /\ trace[i].stmt.op = "Goto" /\ trace[i].res = Ok)
         => (trace[i + 1].line = trace[i].stmt.line /\ trace[i + 1].idx = 1)
  /\ (RunReturned /\ trace # <<>> /\ Last(trace).stmt.op = "Goto"
        /\ Last(trace).res = Ok)
       => lines[Last(trace).stmt.line] = <<>>

\* a statement that is, or holds in a branch or body, a GOTO, GOSUB, RETURN,
\* END or STOP
RECURSIVE Jumps(_)
Jumps(node) ==
  \/ node.op \in {"Goto", "Gosub", "Return", "End", "Stop"}
  \/ /\ node.op = "If"
     /\ \/ \E i \in 1..Len(node.then_stmts) : Jumps(node.then_stmts[i])
        \/ \E i \in 1..Len(node.else_stmts) : Jumps(node.else_stmts[i])
  \/ /\ node.op = "While"
     /\ \E i \in 1..Len(node.body) : Jumps(node.body[i])

NoJumps == \A ln \in DOMAIN lines : \A i \in 1..Len(lines[ln]) : ~Jumps(lines[ln][i])

\* the elements of a set of numbers, smallest first
RECURSIVE Ascending(_)
Ascending(S) ==
  IF S = {} THEN <<>>
  ELSE LET m == CHOOSE x \in S : \A y \in S : x <= y
       IN <<m>> \o Ascending(S \ {m})

\* the positions <<line, index>> of the statements of the given lines, in order
RECURSIVE Positions(_)
Positions(nums) ==
  IF nums = <<>> THEN <<>>
  ELSE [i \in 1..Len(lines[Head(nums)]) |-> <<Head(nums), i>>] \o Positions(Tail(nums))

ProgramOrder == Positions(Ascending(DOMAIN lines))

TracePositions == [i \in 1..Len(trace) |-> <<trace[i].line, trace[i].idx>>]

\* C2: for a stored program without GOTO, GOSUB, RETURN, END or STOP, run
\* executes the statements in ascending line order and left to right within
\* a line, and when it returns success it has executed every one exactly once.
C2_RunInLineOrder ==
  (last_call = "run" /\ NoJumps) =>
    /\ Len(trace) <= Len(ProgramOrder)
    /\ TracePositions = SubSeq(ProgramOrder, 1, Len(trace))
    /\ (RunReturned /\ result = Ok) => TracePositions = ProgramOrder

C2_Witness ==
  /\ RunReturned /\ result = Ok /\ NoJumps
  /\ Cardinality(DOMAIN lines) = 3
  /\ Len(trace) = 4

\* the stored program is  10 FOR v = a TO b [STEP s] / 20 <one PRINT> / 30 NEXT
\* with integer literals a, b, s
IsLit(e) == e.op = "Literal" /\ e.val.t = "Integer"

ForProgram ==
  /\ DOMAIN lines = {10, 20, 30}
  /\ Len(lines[10]) = 1 /\ lines[10][1].op = "For"
  /\ IsLit(lines[10][1].start) /\ IsLit(lines[10][1].end)
  /\ lines[10][1].step # <<>> => IsLit(lines[10][1].step[1])
  /\ Len(lines[20]) = 1 /\ lines[20][1].op = "Print"
  /\ Len(lines[30]) = 1 /\ lines[30][1].op = "Next"
  /\ lines[30][1].name \in {"", lines[10][1].name}

ForFrom == lines[10][1].start.val.n
ForTo == lines[10][1].end.val.n
ForStep == IF lines[10][1].step = <<>> THEN 1 ELSE lines[10][1].step[1].val.n

\* floor((b - a) / s) + 1 for s > 0, a <= b or s < 0, a >= b
ForTrips ==
  IF ForStep > 0 THEN ((ForTo - ForFrom) \div ForStep) + 1
  ELSE ((ForFrom - ForTo) \div (0 - ForStep)) + 1

BodyRuns == Cardinality({i \in 1..Len(trace) : trace[i].line = 20})

\* C3: run executes the body of FOR v = a TO b STEP s ... NEXT exactly
\* floor((b - a) / s) + 1 times and leaves v at the first value past b.
C3_ForLoopTrips ==
  (RunReturned /\ result = Ok /\ ForProgram
     /\ ((ForStep > 0 /\ ForFrom <= ForTo) \/ (ForStep < 0 /\ ForFrom >= ForTo)))
    => /\ BodyRuns = ForTrips
       /\ variables[lines[10][1].name] = DblV(ForFrom + ForTrips * ForStep)

\* the RETURN at trace index j returns from the GOSUB at trace index i: it is
\* the first statement after i that takes the call stack below its height
\* after the GOSUB
Matches(i, j) ==
  /\ i < j
  /\ trace[i].stmt.op = "Gosub" /\ trace[i].res = Ok
  /\ trace[j].stmt.op = "Return" /\ trace[j].res = Ok
  /\ Len(trace[j].after) < Len(trace[i].after)
  /\ \A k \in (i + 1)..(j - 1) : Len(trace[k].after) >= Len(trace[i].after)

\* C4: during run, the RETURN that follows a GOSUB executed on line N pops
\* the entry that GOSUB pushed, leaves the call stack as it was before the
\* GOSUB, and execution resumes on line N.
C4_ReturnResumes ==
  \A i, j \in 1..Len(trace) :
    Matches(i, j) =>
      /\ trace[i].after = Append(trace[i].before, trace[i].line)
      /\ trace[j].after = trace[i].before
      /\ j < Len(trace) => trace[j + 1].line = trace[i].line
      /\ ~(RunReturned /\ j = Len(trace) /\ trace[i].idx < Len(lines[trace[i].line]))

\* C5: no call of execute or run returns the ProgramEnd signal of END/STOP
\* to its caller.
C5_EndIsSuccess == pc = "idle" => result # ProgramEnd

\* the values of the DATA statements of the stored lines
StoredData ==
  {evaluate_expression(Session, lines[ln][i].exprs[k]).val :
     <<ln, i, k>> \in {x \in (DOMAIN lines) \X (1..3) \X (1..3) :
        /\ x[2] <= Len(lines[x[1]])
        /\ lines[x[1]][x[2]].op = "Data"
        /\ x[3] <= Len(lines[x[1]][x[2]].exprs)}}

\* C6: when run is about to execute its first statement, the value of every
\* DATA statement of the stored lines is in the data sequence.
C6_DataLoadedBeforeRun ==
  (pc = "line" /\ trace = <<>>) =>
    \A v \in StoredData : \E k \in 1..Len(data_items) : data_items[k] = v

\* this step executes the statement st as a whole, in direct mode or as a
\* statement of a line during run
Executes(st) ==
  \/ Execute(Program(<<st>>))
  \/ RunStmt /\ statements[stmt_index] = st

\* the Result of the statement executed by this step
StepResult == IF pc = "stmt" THEN Last(trace').res ELSE result'

ReadStmts == {Read(<<"A">>), Read(<<"I">>), Read(<<"A", "I">>)}

OutOfData == Err("RuntimeError", <<"Out of DATA">>)

\* C7: the k-th variable read since the last RESTORE (or since the session
\* began) receives the k-th value of the data sequence; a READ of more
\* variables than there are values left fails with "Out of DATA", any other
\* READ succeeds and binds its variables, in order, to the values from the
\* cursor on; RESTORE makes the next READ start at the first value again.
C7_ReadInDataOrder ==
  /\ [](/\ Len(read_log) = data_pointer
        /\ data_pointer <= Len(data_items)
        /\ \A k \in 1..Len(read_log) : read_log[k] = data_items[k])
  /\ [][\A st \in ReadStmts :
          Executes(st) =>
            IF Len(st.vars) > Len(data_items) - data_pointer
              THEN StepResult = OutOfData
              ELSE /\ StepResult = Ok
                   /\ data_pointer' = data_pointer + Len(st.vars)
                   /\ \A j \in 1..Len(st.vars) :
                        variables'[st.vars[j]] = data_items[data_pointer + j]]_vars
  /\ [][Executes(Restore) => data_pointer' = 0 /\ StepResult = Ok]_vars

\* a run has read, restored, read the first value again and run out of data
C7_Witness ==
  /\ RunReturned /\ result = OutOfData
  /\ Len(read_log) = 2 /\ data_pointer = 2 /\ Len(data_items) = 2
  /\ \E i \in 1..Len(trace) :
       /\ i + 1 < Len(trace)
       /\ trace[i].stmt.op = "Restore"
       /\ trace[i + 1].stmt.op = "Read" /\ trace[i + 1].res = Ok
  /\ variables["I"] = data_items[1] /\ variables["A"] = data_items[2]

NextWithoutFor == Err("RuntimeError", <<"NEXT without FOR">>)

\* C8: a NEXT executed while the FOR-frame stack is empty fails with
\* "NEXT without FOR" and changes neither the variables, nor the two stacks,
\* nor the data cursor.
C8_NextWithoutFor ==
  [][\A v \in {"", "I"} :
       (for_stack = <<>> /\ Executes(NextNode(v))) =>
         /\ StepResult = NextWithoutFor
         /\ UNCHANGED <<variables, call_stack, for_stack, data_pointer>>]_vars

C8_Witness == result = NextWithoutFor /\ for_stack = <<>>

ReturnWithoutGosub == Err("RuntimeError", <<"RETURN without GOSUB">>)

\* C9: a RETURN executed while the call stack is empty fails with
\* "RETURN without GOSUB" and changes neither current_line nor the call stack.
C9_ReturnWithoutGosub ==
  [][(call_stack = <<>> /\ Executes(Return)) =>
       /\ StepResult = ReturnWithoutGosub
       /\ UNCHANGED <<current_line, call_stack>>]_vars

C9_Witness == result = ReturnWithoutGosub /\ call_stack = <<>>

\* C10: a GOSUB that succeeds, in direct mode or during run, pushes exactly
\* one entry onto the call stack.
C10_GosubPushes ==
  [][\A st \in {Gosub(10), Gosub(20), Gosub(30)} :
       (Executes(st) /\ StepResult = Ok) =>
         /\ Len(call_stack') = Len(call_stack) + 1
         /\ Front(call_stack') = call_stack]_vars

JumpStmts == {Goto(l) : l \in {10, 20, 30, 40}} \cup {Gosub(l) : l \in {10, 20, 30, 40}}

\* C11: GOTO L and GOSUB L fail with LineNumberError when L is not a key of
\* the program store, and succeed, leaving current_line at L, when it is.
C11_JumpTargetChecked ==
  [][\A st \in JumpStmts :
       Executes(st) =>
         IF st.line \in DOMAIN lines
           THEN StepResult = Ok /\ current_line' = <<st.line>>
           ELSE StepResult.kind = "LineNumberError"]_vars

C11_Witness ==
  /\ result.kind = "LineNumberError"
  /\ DOMAIN lines = {10, 20, 30}

\* the pieces of a message
Pieces(r) == {r.msg[i] : i \in 1..Len(r.msg)}

\* C12: NEXT x, x not empty and not the variable of the top frame, fails
\* with a RuntimeError whose message names the frame's variable and x, and
\* changes neither the variables nor the FOR-frame stack.
C12_NextMismatch ==
  [][\A x \in {"I", "J", "A"} :
       (/\ for_stack # <<>>
        /\ Last(for_stack).variable # x
        /\ Executes(NextNode(x))) =>
         /\ StepResult.kind = "RuntimeError"
         /\ {Last(for_stack).variable, x} \subseteq Pieces(StepResult)
         /\ UNCHANGED <<variables, for_stack>>]_vars

C12_Witness ==
  /\ result.kind = "RuntimeError"
  /\ "NEXT variable mismatch: expected " \in Pieces(result)
  /\ for_stack # <<>>

\* C13: a NEXT that succeeds sets the variable of the top frame to its old
\* value plus the frame's step and leaves every other variable as it was; it
\* pops the top frame exactly when the new value is past the end value, and
\* leaves the frames below untouched.
C13_NextOnTopFrame ==
  [][\A x \in {"", "I", "J", "A"} :
       (Executes(NextNode(x)) /\ StepResult = Ok) =>
         LET top == Last(for_stack)
             new_value == variables[top.variable].n + top.step
             past == \/ top.step > 0 /\ new_value > top.end_value
                     \/ top.step <= 0 /\ new_value < top.end_value
         IN /\ variables' = Insert(variables, top.variable, DblV(new_value))
            /\ for_stack' = IF past THEN Front(for_stack) ELSE for_stack]_vars

\* the nested loops have run: the inner frame was kept once, then popped,
\* and the outer frame is still there
C13_Witness ==
  /\ RunReturned /\ result = Ok
  /\ Len(trace) = 5
  /\ \A i \in 3..5 : trace[i].stmt.op = "Next" /\ trace[i].res = Ok
  /\ Len(for_stack) = 1 /\ Last(for_stack).variable = "I"
  /\ variables["A"] = DblV(3) /\ variables["I"] = DblV(2)

\* what the step has written: the whole output of a direct-mode call, the
\* new pieces of the output of a run
Written ==
  IF pc = "stmt" THEN SubSeq(output', Len(output) + 1, Len(output')) ELSE output'

\* the statements that bind a variable
Binds(st) == st.op \in {"Let", "Read", "For", "Next", "Swap"}

\* the step executes no statement that binds a variable
BindsNothing ==
  IF pc = "stmt" THEN ~Binds(statements[stmt_index])
  ELSE /\ \A st \in DirectStmts : Binds(st) => ~Execute(Program(<<st>>))
       /\ ~Execute(SwapTwice) /\ ~Execute(Mixed)

\* C14: reading a variable that was never assigned fails with UndefinedError
\* and writes nothing; LET A = c for an integer literal c binds A to
\* Integer(c); a bound variable keeps its value over every step that binds
\* no variable, and reading it succeeds and yields that value.
C14_UndefinedUntilAssigned ==
  [][/\ (Executes(PrintNode(<<Variable("A")>>)) /\ "A" \notin DOMAIN variables) =>
          /\ StepResult = Err("UndefinedError", <<"Variable ", "A", " not defined">>)
          /\ Written = <<>>
     /\ \A c \in {5, 7} :
          Executes(Let("A", Num(c))) =>
            StepResult = Ok /\ variables' = Insert(variables, "A", IntV(c))
     /\ (Executes(PrintNode(<<Variable("A")>>)) /\ "A" \in DOMAIN variables) =>
          /\ StepResult = Ok
          /\ Written = <<Display(variables["A"]), "\n">>
     /\ ("A" \in DOMAIN variables /\ BindsNothing) =>
          "A" \in DOMAIN variables' /\ variables'["A"] = variables["A"]]_vars

\* LET A = 5 and then PRINT A: A is Integer(5) and "5" was written
C14_Witness ==
  /\ last_call = "execute" /\ result = Ok
  /\ "A" \in DOMAIN variables /\ variables["A"] = IntV(5)
  /\ output = <<"5", "\n">>

\* the PRINT statements of direct mode
PrintStmts == {st \in DirectStmts : st.op = "Print"}

\* C15: a PRINT in which the evaluation of an expression fails returns that
\* failure and has written nothing.
C15_FailedPrintIsSilent ==
  [][\A st \in PrintStmts :
       (Executes(st) /\ StepResult # Ok) => Written = <<>>]_vars

\* the integer a number n + h/2 truncates to, toward zero
Trunc(v) ==
  IF v.h = 0 \/ v.n >= 0 THEN v.n ELSE 0 - ((0 - (2 * v.n + 1)) \div 2)

\* -|x|, which exists for every 32-bit x
NegAbs(x) == IF x > 0 THEN 0 - x ELSE x

\* m is the remainder of a division of l by r that truncates toward zero:
\* smaller than r in magnitude and zero or of the sign of l
RemainderOf(l, r, m) ==
  /\ NegAbs(m) > NegAbs(r)
  /\ m = 0 \/ (m < 0) = (l < 0)

\* x is a multiple of r
MultipleOf(x, r) ==
  IF r = MinI32 THEN x = 0 \/ x = MinI32 ELSE x % (0 - NegAbs(r)) = 0

DivisionByZero == Err("DivisionByZero", <<>>)

\* C16: on numeric operands l and r, l \ r is Integer(q) and l MOD r is
\* Integer(m) with trunc(l) = q * trunc(r) + m for the quotient q and the
\* remainder m of the division that truncates toward zero, and both fail with
\* DivisionByZero exactly when trunc(r) = 0.
C16_IntegerDivision ==
  (operator \in IntegerOps /\ is_numeric(left) /\ is_numeric(right)) =>
    LET l == Trunc(left)
        r == Trunc(right)
    IN IF r = 0 THEN value = Bad(DivisionByZero)
       ELSE /\ value.ok
            /\ value.val.t = "Integer" /\ value.val.h = 0
            /\ operator = "IntDivide" => RemainderOf(l, r, l - value.val.n * r)
            /\ operator = "Mod" =>
                 RemainderOf(l, r, value.val.n) /\ MultipleOf(l - value.val.n, r)

\* enum Error
ErrorKinds == {"SyntaxError", "RuntimeError", "TypeError", "DivisionByZero",
               "UndefinedError", "IoError", "LineNumberError", "OutOfMemory"}

\* C17: integer division and MOD return Ok or an Error for every pair of
\* 32-bit integer operands; the evaluation never aborts.
C17_IntegerDivisionReturns ==
  (operator \in IntegerOps /\ left.t = "Integer" /\ right.t = "Integer") =>
    value.ok \/ value.err.kind \in ErrorKinds

\* an order-preserving image of the operands: twice the number where that
\* exists, and the number itself for the two extreme integers, which lie
\* beyond twice every other operand
Scale(v) == IF Small(v) THEN 2 * v.n + v.h ELSE v.n

\* the relation an operator stands for
Holds(op, a, b) ==
  CASE op = "Equal" -> a = b
    [] op = "NotEqual" -> a # b
    [] op = "LessThan" -> a < b
    [] op = "GreaterThan" -> a > b
    [] op = "LessEqual" -> a <= b
    [] op = "GreaterEqual" -> a >= b

\* bit i of the 32-bit two's complement pattern of x; bit 31 is the sign
Bit(x, i) == IF i = 31 THEN x < 0 ELSE (x \div (2 ^ i)) % 2 = 1

\* the truth table of a connective
Connective(op, a, b) ==
  CASE op = "And" -> a /\ b
    [] op = "Or" -> a \/ b
    [] op = "Xor" -> a # b
    [] op = "Eqv" -> a = b
    [] op = "Imp" -> a => b

\* C18: on numeric operands a relational operator returns Integer(-1) when
\* its relation holds and Integer(0) otherwise; AND, OR, XOR, EQV and IMP
\* apply their truth table to each of the 32 bits of the truncated operands
\* and NOT inverts each bit, so that on -1 and 0 they are the connectives.
C18_TruthValuesAndBits ==
  /\ (operator \in RelationalOps /\ is_numeric(left) /\ is_numeric(right)) =>
       value = Good(IntV(IF Holds(operator, Scale(left), Scale(right))
                           THEN -1 ELSE 0))
  /\ (operator \in BitwiseOps /\ is_numeric(left) /\ is_numeric(right)) =>
       /\ value.ok /\ value.val.t = "Integer" /\ value.val.h = 0
       /\ \A i \in 0..31 :
            Bit(value.val.n, i) =
              Connective(operator, Bit(Trunc(left), i), Bit(Trunc(right), i))
  /\ (operator = "Not" /\ is_numeric(left)) =>
       /\ value.ok /\ value.val.t = "Integer" /\ value.val.h = 0
       /\ \A i \in 0..31 : Bit(value.val.n, i) = ~Bit(Trunc(left), i)
  /\ (operator = "Not" /\ left = IntV(-1)) => value = Good(IntV(0))
  /\ (operator = "Not" /\ left = IntV(0)) => value = Good(IntV(-1))

\* 0.5 < 1 is true, -1
C18_Witness ==
  /\ operator = "LessThan" /\ left = HalfV(1) /\ right = IntV(1)
  /\ value = Good(IntV(-1))

\* C19: is_numeric and is_string partition the variants: exactly one of
\* them is true of every Value.
C19_PredicatesPartition ==
  operator = "predicates" => predicates.is_numeric # predicates.is_string

\* C19, amended: is_numeric and is_string are never both true; exactly one
\* of them is true of an Integer, a Single, a Double and a String, and
\* neither is true of Nil.
C19_PredicatesDisjoint ==
  operator = "predicates" =>
    /\ ~(predicates.is_numeric /\ predicates.is_string)
    /\ left.t \in {"Integer", "Single", "Double", "String"} =>
         predicates.is_numeric # predicates.is_string
    /\ left.t = "Nil" => ~predicates.is_numeric /\ ~predicates.is_string

\* the predicates were applied to Nil
C19_Witness ==
  /\ operator = "predicates" /\ left = NilV
  /\ predicates = [is_numeric |-> FALSE, is_string |-> FALSE]

\* C21: a PRINT, which does nothing but evaluate its expressions and write
\* their values, leaves the variable environment, the program store,
\* current_line, the call stack, the FOR-frame stack, the data sequence and
\* the data cursor as they were, whether the evaluation succeeds or fails.
C21_EvaluationChangesNothing ==
  [][\A st \in PrintStmts :
       (Executes(st) /\ StepResult.kind # "Panic") =>
         UNCHANGED <<variables, lines, current_line, call_stack, for_stack,
                     data_items, data_pointer>>]_vars

\* PRINT -"X" has failed in a session that holds a variable, stored lines
\* and a FOR frame
C21_Witness ==
  /\ last_call = "execute"
  /\ result = Err("TypeError", <<"Cannot convert '", "X", "' to double">>)
  /\ DOMAIN variables # {} /\ DOMAIN lines # {} /\ for_stack # <<>>

\* a number different from 0, or a non-empty string
Truthy(v) ==
  \/ v.t \in {"Integer", "Single", "Double"} /\ ~(v.n = 0 /\ v.h = 0)
  \/ v.t = "String" /\ v.s # ""

\* C22: an IF whose condition has a value executes the statements of its
\* THEN list, all of them and nothing else, when the value is truthy, and
\* otherwise those of its ELSE list, or nothing when it has no ELSE.
C22_IfExecutesOneBranch ==
  [][\A st \in IfStmts : \A c \in {evaluate_expression(Session, st.cond)} :
       (Executes(st) /\ c.ok) =>
         /\ StepResult = Ok
         /\ Written = IF Truthy(c.val) THEN <<"1", "\n", "3", "\n">>
                      ELSE IF st.has_else THEN <<"2", "\n">> ELSE <<>>]_vars

\* IF .5 THEN PRINT 1 : PRINT 3 ELSE PRINT 2 has run its THEN list, A being 7
C22_Witness ==
  /\ last_call = "execute" /\ result = Ok
  /\ output = <<"1", "\n", "3", "\n">>
  /\ "A" \in DOMAIN variables /\ variables["A"] = IntV(7)

\* the LET statements of direct mode and of the stored programs
LetStmts == {st \in DirectStmts : st.op = "Let"} \cup {Let("A", Num(1))}

\* C29: a LET whose expression has a value binds its name to that value,
\* creating the variable or updating it, and keeps every other variable as
\* it was; a LET whose expression fails returns that failure and leaves the
\* variable environment unchanged.
C29_LetBindsOneVariable ==
  [][\A st \in LetStmts : \A e \in {evaluate_expression(Session, st.expr)} :
       Executes(st) =>
         IF e.ok
           THEN /\ StepResult = Ok
                /\ variables' = [k \in DOMAIN variables \cup {st.name} |->
                                   IF k = st.name THEN e.val ELSE variables[k]]
           ELSE StepResult = e.err /\ UNCHANGED variables]_vars

\* LET A = 1 / 0 has failed while A was 5 and I was 6, after LET I = A + 1
C29_Witness ==
  /\ last_call = "execute" /\ result = Err("DivisionByZero", <<>>)
  /\ DOMAIN variables = {"A", "I"}
  /\ variables["A"] = IntV(5)
  /\ variables["I"].t = "Double" /\ variables["I"].n = 6

\* the SWAP statements of direct mode and of the stored programs
SwapStmts ==
  {Swap("A", "I"), Swap("I", "A"), Swap("A", "J"), Swap("J", "J"), Swap("Z", "A")}

\* C27: SWAP a, b on an unbound a or b fails with UndefinedError and leaves
\* the variable environment unchanged; on bound a and b it binds a to the
\* value b had and b to the value a had and keeps every other variable, and
\* SWAP a, b : SWAP a, b leaves the environment as it was.
C27_SwapExchanges ==
  [][/\ \A st \in SwapStmts :
          Executes(st) =>
            IF {st.var1, st.var2} \subseteq DOMAIN variables
              THEN /\ StepResult = Ok
                   /\ variables' = [k \in DOMAIN variables |->
                         IF k = st.var1 THEN variables[st.var2]
                         ELSE IF k = st.var2 THEN variables[st.var1]
                         ELSE variables[k]]
              ELSE StepResult.kind = "UndefinedError" /\ UNCHANGED variables
     /\ (Execute(SwapTwice) /\ {"A", "I"} \subseteq DOMAIN variables) =>
          result' = Ok /\ UNCHANGED variables]_vars

\* after 10 LET A = 1 : LET I = 2 : LET J = "X" / 20 SWAP A, J : SWAP A, I the
\* run has failed in SWAP Z, A with A = 2, I = "X" and J = 1
C27_Witness ==
  /\ last_call = "run" /\ pc = "idle"
  /\ result = Err("UndefinedError", <<"Variable ", "Z", " not defined">>)
  /\ DOMAIN variables = {"A", "I", "J"}
  /\ variables["A"] = IntV(2) /\ variables["I"] = StrV("X")
  /\ variables["J"] = IntV(1)

\* the numbers of the Line nodes of a Program
LineNumbers(nodes) ==
  {nodes[i].line : i \in {j \in DOMAIN nodes : nodes[j].op = "Line"}}

\* the statements of the last Line node of a Program that has the number k
LastLine(nodes, k) ==
  nodes[CHOOSE i \in DOMAIN nodes :
          /\ nodes[i].op = "Line" /\ nodes[i].line = k
          /\ \A j \in DOMAIN nodes :
                (j > i /\ nodes[j].op = "Line") => nodes[j].line # k].body

\* the program store after the Line nodes of a Program are loaded
Stored(nodes) ==
  [k \in DOMAIN lines \cup LineNumbers(nodes) |->
     IF k \in LineNumbers(nodes) THEN LastLine(nodes, k) ELSE lines[k]]

\* programs of Line nodes: the SWAP program with its lines in any order, the
\* DATA, the GOSUB and the FOR program, and the one repeating number 10
Loads ==
  {Program(q) : q \in Orderings(ProgSwap)}
    \cup {Program(ProgData), Program(ProgGosub), Program(ProgForUp), Renumbered}

\* C26: execute of a Program of Line nodes succeeds, stores the statements
\* of each Line under its number, those of the last Line where a number is
\* repeated or was stored before, keeps every other stored line, and leaves
\* variables, stacks, data sequence and data cursor unchanged and the output
\* empty; bare statements between the Lines are executed in their order.
C26_LoadStoresLines ==
  [][/\ \A ast \in Loads :
          Execute(ast) =>
            /\ result' = Ok /\ lines' = Stored(ast.body) /\ output' = <<>>
            /\ UNCHANGED <<variables, current_line, call_stack, for_stack,
                           data_items, data_pointer>>
     /\ Execute(Mixed) =>
          /\ result' = Ok /\ lines' = Stored(Mixed.body)
          /\ output' = <<"5", "\n">>
          /\ variables' = [k \in DOMAIN variables \cup {"A"} |->
                             IF k = "A" THEN IntV(7) ELSE variables[k]]
          /\ UNCHANGED <<current_line, call_stack, for_stack, data_items,
                         data_pointer>>]_vars

\* 10 LET A = 1 / 20 REM / 10 REM was loaded over the three lines of the
\* SWAP program: lines 10 and 20 are replaced, line 30 is kept
C26_Witness ==
  /\ last_call = "execute" /\ result = Ok /\ variables = EmptyMap
  /\ DOMAIN lines = {10, 20, 30}
  /\ lines[10] = <<Rem>> /\ lines[20] = <<Rem>> /\ lines[30] = ProgSwap[3].body

\* the precedence level of a binary operator token, 1 the loosest
Level(tok) ==
  CASE tok = "Or" -> 1
    [] tok = "And" -> 2
    [] tok \in {"Equal", "NotEqual", "LessThan", "GreaterThan", "LessEqual",
                "GreaterEqual"} -> 3
    [] tok \in {"Plus", "Minus"} -> 4
    [] tok \in {"Multiply", "Divide", "IntDivide", "Mod"} -> 5
    [] tok = "Power" -> 6

\* the operator a token stands for
BinaryOf(tok) ==
  CASE tok = "Plus" -> "Add"
    [] tok = "Minus" -> "Subtract"
    [] OTHER -> tok

UnaryOf(tok) == IF tok = "Minus" THEN "Negate" ELSE "Not"

\* PRINT e was parsed into a Print of the one expression tree
ParsedPrint(e, tree) ==
  source = DirectSource(<<PrintTokens(e)>>) =>
    parsed = Good(Program(<<PrintNode(<<tree>>)>>))

\* C25: in 2 op1 3 op2 4 the operator op2 takes 2 op1 3 for its left
\* operand unless its level is tighter than that of op1, and then op1 takes
\* 3 op2 4 for its right operand; a parenthesized expression is an operand
\* of the operator before it, and so is an expression under unary minus or
\* NOT of the operators on either side; 2 + 3 * 4 evaluates to 14.
C25_Precedence ==
  parsed # NoResult =>
    /\ \A op1, op2 \in BinaryTokens :
         /\ ParsedPrint(Chain(op1, op2),
              IF Level(op2) > Level(op1)
                THEN BinaryOp(BinaryOf(op1), Num(2),
                              BinaryOp(BinaryOf(op2), Num(3), Num(4)))
                ELSE BinaryOp(BinaryOf(op2),
                              BinaryOp(BinaryOf(op1), Num(2), Num(3)), Num(4)))
         /\ ParsedPrint(Grouped(op1, op2),
              BinaryOp(BinaryOf(op1), Num(2),
                       BinaryOp(BinaryOf(op2), Num(3), Num(4))))
    /\ \A u \in UnaryTokens : \A op \in BinaryTokens :
         /\ ParsedPrint(Prefixed(u, op),
              BinaryOp(BinaryOf(op), UnaryOp(UnaryOf(u), Num(2)), Num(3)))
         /\ ParsedPrint(Suffixed(op, u),
              BinaryOp(BinaryOf(op), Num(2), UnaryOp(UnaryOf(u), Num(3))))
    /\ \A u1, u2 \in UnaryTokens :
         ParsedPrint(Twice(u1, u2), UnaryOp(UnaryOf(u1), UnaryOp(UnaryOf(u2), Num(2))))
    /\ source = DirectSource(<<PrintTokens(Chain("Plus", "Multiply"))>>) =>
         \E e \in {evaluate_expression(new, parsed.val.body[1].exprs[1])} :
           e.ok /\ e.val.n = 14 /\ e.val.h = 0

\* PRINT 2 + 3 * 4 was parsed into Add(2, Multiply(3, 4))
C25_Witness ==
  /\ source = DirectSource(<<PrintTokens(Chain("Plus", "Multiply"))>>)
  /\ parsed = Good(Program(<<PrintNode(<<
        BinaryOp("Add", Num(2), BinaryOp("Multiply", Num(3), Num(4)))>>)>>))

\* the node of a statement and of an expression parsed on its own
StatementNode(s) == parse_statement(s \o <<Token("Eof")>>, 1).node
ExpressionNode(e) == parse_expression(e \o <<Token("Eof")>>, 1).node

\* C23: IF c THEN s1 ELSE s2 parses into If(c, [s1], Some([s2])), IF c THEN
\* s1 into If(c, [s1], None), and IF c s1 fails with the syntax error
\* "Expected THEN after IF condition".
C23_IfElseParses ==
  parsed # NoResult =>
    \A c \in ConditionTokens : \A s1, s2 \in SimpleStatements :
      /\ source = DirectSource(<<IfElseTokens(c, s1, s2)>>) =>
           parsed = Good(Program(<<If(ExpressionNode(c), <<StatementNode(s1)>>,
                                      TRUE, <<StatementNode(s2)>>)>>))
      /\ source = DirectSource(<<IfTokens(c, s1)>>) =>
           parsed = Good(Program(<<If(ExpressionNode(c), <<StatementNode(s1)>>,
                                      FALSE, <<>>)>>))
      /\ source = DirectSource(<<IfWithoutThen(c, s1)>>) =>
           parsed = Bad(SyntaxError(<<"Expected THEN after IF condition">>))

\* the Line node of a physical line that begins with a line number
LineNode(l) == Line(l.num[1], [k \in DOMAIN l.stmts |-> StatementNode(l.stmts[k])])

\* C24: a source of n numbered lines parses into the Program of the n Line
\* nodes of its lines, in their order, each with the statements of its own
\* line, also where a line before the last contains an IF or a WHILE.
C24_LinesParse ==
  (parsed # NoResult /\ source.lines[1].num # <<>>) =>
    parsed = Good(Program([i \in DOMAIN source.lines |-> LineNode(source.lines[i])]))

\* the built-in function a spelling names, the argument counts it accepts
\* and the words of its message; FOO, LEFT$$ and LEN$ name none
BuiltIn(f) ==
  CASE f \in {"LEFT$", "left$", "Left"} -> <<"LEFT$", {2}, "2 arguments">>
    [] f = "RIGHT$" -> <<"RIGHT$", {2}, "2 arguments">>
    [] f = "Mid" -> <<"MID$", {2, 3}, "2 or 3 arguments">>
    [] f \in {"ABS", "abs"} -> <<"ABS", {1}, "1 argument">>
    [] f = "RND" -> <<"RND", {0, 1}, "0 or 1 arguments">>
    [] f = "timer" -> <<"TIMER", {0}, "0 arguments">>
    [] f = "INSTR" -> <<"INSTR", {2, 3}, "2 or 3 arguments">>
    [] f = "chr" -> <<"CHR$", {1}, "1 argument">>
    [] OTHER -> <<>>

\* a call of an unknown name has failed with UndefinedError, and a call of a
\* known name with a number of arguments it does not accept has failed with
\* the RuntimeError that names it and the number, no body being invoked
Dispatched ==
  IF BuiltIn(call.name) = <<>>
    THEN /\ value.err = Err("UndefinedError", <<"Function ", call.name, " not defined">>)
         /\ value.invoked = ""
    ELSE Len(call.args) \notin BuiltIn(call.name)[2] =>
           /\ value.err = Err("RuntimeError", <<BuiltIn(call.name)[1], " requires ",
                                                BuiltIn(call.name)[3]>>)
           /\ value.invoked = ""

\* C28: a call of a name that is not built in fails with UndefinedError; a
\* call of a built-in name with a number of arguments it does not accept
\* fails with the RuntimeError naming the function and the number it
\* expects, and its body is not invoked.
C28_Dispatch ==
  (operator = "call" /\ call.name \in Spellings) => Dispatched

\* the Results of evaluating the arguments of call
Arguments == [i \in DOMAIN call.args |-> evaluate_expression(Session, call.args[i])]

\* C28, amended: when every argument of the call evaluates, the call is
\* dispatched as C28 says; when an argument fails, the call fails with the
\* error of the first argument that fails, whatever its name and the number
\* of its arguments, and no body is invoked.
C28_DispatchAfterArguments ==
  (operator = "call" /\ call.name \in Spellings) =>
    IF \A i \in DOMAIN Arguments : Arguments[i].ok THEN Dispatched
    ELSE \E i \in DOMAIN Arguments :
           /\ ~Arguments[i].ok /\ \A j \in 1..(i - 1) : Arguments[j].ok
           /\ value.err = Arguments[i].err /\ value.invoked = ""

\* abs(1, 1) has failed with "ABS requires 1 argument"
C28_Witness ==
  /\ operator = "call" /\ call = FunctionCall("abs", <<Num(1), Num(1)>>)
  /\ value.err = Err("RuntimeError", <<"ABS", " requires ", "1 argument">>)
  /\ value.invoked = ""

\* the first and the last m characters of a string, and the characters at
\* the positions p .. min(p + k - 1, n) of a string of length n
FirstChars(s, m) == SubSeq(s, 1, m)
LastChars(s, m) == SubSeq(s, Len(s) - m + 1, Len(s))
Smaller(a, b) == IF a < b THEN a ELSE b
CharsAt(s, p, k) ==
  IF p > Len(s) THEN ""
  ELSE SubSeq(s, p, IF k > Len(s) - p + 1 THEN Len(s) ELSE p + k - 1)

\* C30: for a string s of length n, k >= 0 and p >= 1, LEFT$(s, k) is the
\* first min(k, n) characters of s, RIGHT$(s, k) the last min(k, n), and
\* MID$(s, p, k) the characters at the positions p .. min(p + k - 1, n),
\* none when p > n.
C30_LeftRightMid ==
  (operator = "call" /\ call \in StringCalls) =>
    \A s \in {call.args[1].val.s} : \A k \in {call.args[Len(call.args)].val.n} :
      k >= 0 =>
        /\ call.name = "LEFT$" =>
             value = Called(Good(StrV(FirstChars(s, Smaller(k, Len(s))))), "LEFT$")
        /\ call.name = "RIGHT$" =>
             value = Called(Good(StrV(LastChars(s, Smaller(k, Len(s))))), "RIGHT$")
        /\ (call.name = "MID$" /\ Len(call.args) = 3 /\ call.args[2].val.n >= 1) =>
             value = Called(Good(StrV(CharsAt(s, call.args[2].val.n, k))), "MID$")

\* MID$("HELLO", 2, 3) is "ELL"
C30_Witness ==
  /\ operator = "call"
  /\ call = FunctionCall("MID$", <<Literal(StrV("HELLO")), Num(2), Num(3)>>)
  /\ value = Called(Good(StrV("ELL")), "MID$")

\* the number n + h/2 of a Value, in halves; Nil counts as 0
Halves(v) == 2 * v.n + v.h

\* C31: + returns the concatenation of the textual forms of its operands
\* when at least one of them is a string, without a type error, and the
\* numeric sum of the operands otherwise.
C31_AddConcatenatesOrSums ==
  operator = "Add" =>
    IF is_string(left) \/ is_string(right)
      THEN value = Good(StrV(Display(left) \o Display(right)))
      ELSE /\ value.ok /\ value.val.t = "Double"
           /\ Halves(value.val) = Halves(left) + Halves(right)

\* "abc" + 3 is "abc3"
C31_Witness ==
  /\ operator = "Add" /\ left = StrV("abc") /\ right = IntV(3)
  /\ value = Good(StrV("abc3"))

\* -1.5 + 2 is 0.5
C31_WitnessSum ==
  /\ operator = "Add" /\ left = HalfV(-3) /\ right = IntV(2)
  /\ value = Good(HalfV(1))

\* the last call of open was on a number that was open, and one of the calls
\* of the operating system that open makes has failed
AlreadyOpen == file_op'.file_num \in DOMAIN handles
UnderlyingOpenFails ==
  \/ ~file_op'.io[1]
  \/ file_op'.mode = "Input" /\ file_op'.path \notin disk
  \/ file_op'.mode # "Random" /\ ~file_op'.io[2]

\* C32: open(num, ..) fails when num is already open, and the handle of num
\* and its mode stay; when the underlying open fails, open fails and num
\* stays not open; a failing open leaves the set of the open numbers as it
\* was.
C32_OpenFailsCleanly ==
  [][file_op'.op = "open" =>
       /\ AlreadyOpen => file_op'.res.kind = "RuntimeError" /\ handles' = handles
       /\ (~AlreadyOpen /\ UnderlyingOpenFails) =>
            file_op'.res # Ok /\ file_op'.file_num \notin DOMAIN handles'
       /\ file_op'.res # Ok => DOMAIN handles' = DOMAIN handles
       /\ file_op'.res = Ok =>
            /\ DOMAIN handles' = DOMAIN handles \cup {file_op'.file_num}
            /\ handles'[file_op'.file_num].mode = file_op'.mode]_vars

\* open in Output mode has failed on a number that is open in Input mode,
\* and the number is still open in Input mode
C32_Witness ==
  /\ file_op.op = "open" /\ file_op.mode = "Output"
  /\ file_op.res = Err("RuntimeError", <<"File #", "1", " is already open">>)
  /\ 1 \in DOMAIN handles /\ handles[1].mode = "Input" /\ handles[1].reader

\* the underlying open has failed and the number is not open
C32_WitnessIo ==
  /\ file_op.op = "open" /\ file_op.res.kind = "IoError"
  /\ file_op.file_num \notin DOMAIN handles /\ DOMAIN handles # {}

\* a number is open for writing, for reading
Writes(num) == num \in DOMAIN handles /\ handles[num].mode \in {"Output", "Append"}
Reads(num) == num \in DOMAIN handles /\ handles[num].mode = "Input"

\* C33: whatever has been opened and closed, write_line(num) succeeds only
\* if num is open in Output or Append mode and read_line(num) only if num is
\* open in Input mode; on a number that is not open, or is open in another
\* mode, they fail with a RuntimeError and leave the handles as they are.
C33_WriteAndReadNeedTheirMode ==
  [][/\ file_op'.op = "write_line" =>
          /\ file_op'.res = Ok => Writes(file_op'.file_num)
          /\ ~Writes(file_op'.file_num) =>
               file_op'.res.kind = "RuntimeError" /\ handles' = handles
     /\ file_op'.op = "read_line" =>
          /\ file_op'.res = Ok => Reads(file_op'.file_num)
          /\ ~Reads(file_op'.file_num) =>
               file_op'.res.kind = "RuntimeError" /\ handles' = handles]_vars

\* write_line has failed on a number that is open in Input mode
C33_Witness ==
  /\ file_op.op = "write_line" /\ file_op.file_num = 1
  /\ file_op.res = Err("RuntimeError", <<"File #", "1", " not open for writing">>)
  /\ Reads(1) /\ Writes(2)

\* the cursor is on the screen
CursorOnScreen ==
  /\ screen.cursor_y \in 0..(screen.height - 1)
  /\ screen.cursor_x \in 0..(screen.width - 1)

\* the position <<x, y>> or <<row, col>> is on the 80 x 25 screen
OnScreen(x, y) == x \in 0..79 /\ y \in 0..24

\* C34: on the default 80 x 25 screen, whatever cls, locate, color and pset
\* calls are made, the cursor has row < height and column < width; locate
\* with row >= height or col >= width fails and leaves the cursor where it
\* is, cls puts the cursor at (0, 0), and pset with coordinates outside the
\* screen succeeds and changes neither the buffer nor the cursor.
C34_CursorStaysOnScreen ==
  /\ [](screen.width = 80 /\ screen.height = 25 /\ CursorOnScreen)
  /\ [][/\ (screen_op'.op = "locate"
             /\ ~OnScreen(screen_op'.args[2], screen_op'.args[1])) =>
               screen_op'.res.kind = "RuntimeError" /\ screen' = screen
        /\ (screen_op'.op = "locate"
             /\ OnScreen(screen_op'.args[2], screen_op'.args[1])) =>
               /\ screen_op'.res = Ok
               /\ screen'.cursor_y = screen_op'.args[1]
               /\ screen'.cursor_x = screen_op'.args[2]
        /\ screen_op'.op = "cls" =>
               screen'.cursor_y = 0 /\ screen'.cursor_x = 0
        /\ (screen_op'.op = "pset"
             /\ ~OnScreen(screen_op'.args[1], screen_op'.args[2])) =>
               screen_op'.res = Ok /\ screen' = screen]_vars

\* locate(25, 0) has failed with the cursor at (24, 79) and a pixel set
C34_Witness ==
  /\ screen_op.op = "locate" /\ screen_op.args = <<25, 0>>
  /\ screen_op.res = Err("RuntimeError",
       <<"LOCATE position out of range: (", "25", ", ", "0", ")">>)
  /\ screen.cursor_y = 24 /\ screen.cursor_x = 79
  /\ screen.buffer # {}

\* C37: a GOSUB to a line that is not in the program store fails with
\* LineNumberError and leaves the call stack and current_line as they were.
C37_FailedGosubChangesNothing ==
  [][\A l \in {10, 20, 30, 40} :
       (Executes(Gosub(l)) /\ l \notin DOMAIN lines) =>
         /\ StepResult.kind = "LineNumberError"
         /\ UNCHANGED <<current_line, call_stack>>]_vars

DataStmts == {Data(<<Num(1), Num(2)>>)}

\* the values left between the cursor and the end of the data sequence
Remaining == Len(data_items) - data_pointer

\* C38: the data cursor is always between 0 and the length of the data
\* sequence; a READ of k variables with j < k values left binds the first
\* j variables, moves the cursor to the end of the sequence and fails with
\* "Out of DATA", the other variables keeping what they had; DATA appends
\* to the data sequence and leaves the cursor where it was.
C38_CursorWithinData ==
  /\ [](data_pointer \in 0..Len(data_items))
  /\ [][\A st \in ReadStmts :
          (Executes(st) /\ Remaining < Len(st.vars)) =>
            /\ StepResult = OutOfData
            /\ data_pointer' = Len(data_items)
            /\ data_items' = data_items
            /\ \A i \in 1..Len(st.vars) :
                 IF i <= Remaining
                   THEN /\ st.vars[i] \in DOMAIN variables'
                        /\ variables'[st.vars[i]] = data_items[data_pointer + i]
                   ELSE IF st.vars[i] \in DOMAIN variables
                     THEN variables'[st.vars[i]] = variables[st.vars[i]]
                     ELSE st.vars[i] \notin DOMAIN variables']_vars
  /\ [][\A st \in DataStmts :
          Executes(st) =>
            /\ StepResult = Ok
            /\ data_pointer' = data_pointer
            /\ data_items' = data_items \o <<IntV(1), IntV(2)>>]_vars

\* a READ of two variables with one value left has bound the first of them
\* and failed
C38_Witness ==
  /\ RunReturned /\ result = OutOfData
  /\ Last(trace).stmt = Read(<<"A", "I">>)
  /\ data_pointer = Len(data_items) /\ Len(data_items) = 2
  /\ variables["A"] = data_items[2] /\ variables["I"] = data_items[1]

\* this step of run executes the statement st of the current line
RunExecutes(st) == RunStmt /\ statements[stmt_index] = st

\* C35: run stops at the first statement that fails or signals END or STOP.
\* Every statement a run has executed before its last one has succeeded, and
\* a statement that did not succeed is the last one: the run has returned,
\* with the failure itself unless it is ProgramEnd.  END within the body of
\* an IF and a failure within the body of a WHILE stop the body too: what
\* follows them in the body is not executed.  The step that stops the run
\* keeps the variables and the output of the statements before it.
C35_RunStopsAtFirstFailure ==
  /\ [](\A i \in 1..Len(trace) :
          trace[i].res # Ok =>
            /\ i = Len(trace)
            /\ pc \notin {"line", "stmt"}
            /\ last_call = "run" =>
                 result = IF trace[i].res = ProgramEnd THEN Ok ELSE trace[i].res)
  /\ [][\A st \in {End, Stop} :
          RunExecutes(st) =>
            /\ pc' = "idle" /\ result' = Ok
            /\ UNCHANGED fields]_vars
  /\ [][RunExecutes(IfEnd) =>
          /\ pc' = "idle" /\ result' = Ok
          /\ output' = output \o <<"2", "\n">>
          /\ UNCHANGED <<variables, lines, data_items, data_pointer>>]_vars
  /\ [][RunExecutes(WhileFails) =>
          /\ pc' = "idle" /\ result' = DivisionByZero
          /\ output' = output \o <<"1", "\n">>
          /\ UNCHANGED <<variables, lines, data_items, data_pointer>>]_vars

\* a run has failed within the body of a WHILE on line 10, with line 20 stored:
\* the assignment before the WHILE is kept and nothing was printed after the
\* failure
C35_Witness ==
  /\ RunReturned /\ result = DivisionByZero
  /\ Len(trace) = 2 /\ Last(trace).stmt = WhileFails
  /\ 20 \in DOMAIN lines
  /\ variables["A"] = IntV(1)
  /\ output = <<"1", "\n">>

\* a run has ended at the END within the body of an IF on line 10, with line
\* 20 stored
C35_WitnessEnd ==
  /\ RunReturned /\ result = Ok
  /\ Len(trace) = 2 /\ Last(trace).stmt = IfEnd
  /\ 20 \in DOMAIN lines
  /\ output = <<"1", "\n", "2", "\n">>

Returned == loop.at = "returned"

\* the last evaluation of the condition has returned a value that is not true
ConditionFalsy ==
  /\ loop.condition_value # <<>>
  /\ loop.condition_value[1].ok /\ ~is_true(loop.condition_value[1].val)

\* the last evaluation of the condition has returned an error
ConditionFailed == loop.condition_value # <<>> /\ ~loop.condition_value[1].ok

\* a statement of the body has returned an error
BodyFailed == loop.stmt_error

\* The body is entered only after an evaluation of the condition that was
\* true, one for each pass; when the condition is found not true the body
\* has been passed as many times as the condition was true before, and
\* execute_while returns Ok; when that is at the first evaluation the
\* session is as it was at the call.  What execute_while returns, and the
\* session it leaves, are those of the operator execute_while.
WhileCounts ==
  /\ (loop.at = "body" /\ loop.truthy <= MaxIterations) =>
       /\ loop.truthy = loop.bodies + 1
       /\ loop.condition_value[1].ok /\ is_true(loop.condition_value[1].val)
  /\ (Returned /\ ConditionFalsy /\ ~BodyFailed) =>
       /\ loop.bodies = loop.truthy
       /\ loop.res = Ok
       /\ loop.truthy = 0 => Session = loop.entry
  /\ Returned =>
       \E r \in {execute_while(loop.entry, loop.condition, loop.statements,
                               MaxIterations)} :
          r.res # Hang => (r.res = loop.res /\ r.s = Session)

\* C36, as stated: WHILE evaluates its condition before every pass through
\* the body, which is passed k times when the condition is true at its
\* first k evaluations and not at the next (zero times, the session left as
\* it was, when it is not true at first); and execute_while returns if and
\* only if the condition is eventually found not true or a statement of the
\* body fails.
C36_ReturnsIffFalsyOrBodyFails ==
  /\ []WhileCounts
  /\ <>Returned => <>(ConditionFalsy \/ BodyFailed)
  /\ <>(ConditionFalsy \/ BodyFailed) => <>Returned

\* C36, amended: ... and execute_while returns if and only if the condition
\* is eventually found not true, or its evaluation fails, or a statement of
\* the body fails.
C36_ReturnsIffFalsyOrFailure ==
  /\ []WhileCounts
  /\ <>Returned => <>(ConditionFalsy \/ ConditionFailed \/ BodyFailed)
  /\ <>(ConditionFalsy \/ ConditionFailed \/ BodyFailed) => <>Returned

\* WHILE A \ A : LET A = A - 1 has passed its body twice and has returned
\* the error of the third evaluation of its condition
C36_Witness ==
  /\ Returned /\ ConditionFailed /\ ~BodyFailed
  /\ loop.res = DivisionByZero
  /\ loop.truthy = 2 /\ loop.bodies = 2

\* WHILE A : LET I = A : LET A = A - 1 has returned after three passes
C36_WitnessCount ==
  /\ Returned /\ ConditionFalsy
  /\ loop.truthy = 3 /\ loop.bodies = 3 /\ loop.res = Ok
  /\ variables["I"] = DblV(1)

\* WHILE A : LET I = A is in its body for more than MaxIterations times
C36_WitnessForever == loop.at = "body" /\ loop.truthy > MaxIterations

\* the program store holds the lines of prog and no other line
StoreIs(prog) ==
  /\ DOMAIN lines = {prog[i].line : i \in 1..Len(prog)}
  /\ \A i \in 1..Len(prog) : lines[prog[i].line] = prog[i].body

\* C39: run does not reset the session: the call of run, and its passing
\* from line to line and its return, leave the variables, the two stacks,
\* the data sequence and the data cursor as they are.  So when
\* 10 DATA 1, 2 : READ A has been loaded and run once, the data sequence is
\* 1, 2, the cursor is 1 and A is 1; when it has been run twice, the data
\* sequence is 1, 2, 1, 2, the cursor is 2 and A is 2, the second value.
C39_RunKeepsSession ==
  /\ [][(RunBegin \/ RunLine \/ RunEnd) =>
          UNCHANGED <<variables, call_stack, for_stack, data_items, data_pointer>>]_vars
  /\ []((RunReturned /\ StoreIs(ProgDataRead) /\ ncalls = 2) =>
          /\ data_items = <<IntV(1), IntV(2)>>
          /\ data_pointer = 1
          /\ variables["A"] = IntV(1))
  /\ []((RunReturned /\ StoreIs(ProgDataRead) /\ ncalls = 3) =>
          /\ data_items = <<IntV(1), IntV(2), IntV(1), IntV(2)>>
          /\ data_pointer = 2
          /\ variables["A"] = IntV(2))

\* 10 DATA 1, 2 : READ A has been run twice
C39_Witness ==
  /\ RunReturned /\ StoreIs(ProgDataRead) /\ ncalls = 3 /\ result = Ok
  /\ Len(data_items) = 4 /\ data_pointer = 2

\* C40: Parser::parse returns, an AST or a syntax error, on every token
\* sequence that ends in Eof.  Every iteration of the loops of parse,
\* parse_statements, parse_print, parse_rem and of the lists of arguments
\* and of dimensions consumes a token, or leaves the loop, or returns an
\* error; an iteration at Eof leaves the loop or returns an error; so every
\* loop is left at last.  What the loop of parse leaves is what parse returns.
C40_ParserLoopsEnd ==
  /\ [][(scan.loop # "none" /\ ~scan.done) =>
          /\ position' > position \/ scan'.done
          /\ tokens[position].type = "Eof" => scan'.done]_vars
  /\ [](position \in 1..Len(tokens) /\ Last(tokens).type = "Eof")
  /\ []((scan.loop = "parse" /\ scan.done) =>
          \E r \in {parse(tokens)} :
             /\ r.pos = position
             /\ scan.res = r.err
             /\ r.err.kind \in {"Ok", "SyntaxError"})
  /\ <>scan.done

\* the loop of parse has gone through a text of two lines, with a REM, up to
\* the Eof
C40_Witness ==
  /\ scan.loop = "parse" /\ scan.done /\ scan.res = Ok
  /\ position = Len(tokens) /\ tokens[1] = LineNumber(10)
  /\ \E q \in 1..Len(tokens) : tokens[q].type = "Rem"
  /\ \E q \in 1..Len(tokens) : tokens[q] = LineNumber(20)

\* the loop over the arguments has returned the error of a missing comma
C40_WitnessError ==
  /\ scan.loop = "arguments" /\ scan.done /\ scan.res.kind = "SyntaxError"

\* C20: whatever session A executes, and however its statements interleave
\* with those of session B, RND returns to B what it returns when B runs
\* without A.
C20_SessionsIndependent == seen["B"] = alone.seen

====
